---- MODULE Spec2Model ----
(***************************************************************************)
(* A model of the prefetch engine of hermeto.                              *)
(*                                                                         *)
(* Part 1: the concurrent fetcher, async_download_files and the two        *)
(* download coroutines of hermeto/core/package_managers/general.py, run    *)
(* by asyncio.run as the Maven resolver does.                              *)
(*                                                                         *)
(* The event loop is cooperative: the main coroutine runs without          *)
(* interruption from one await to the next, and a download task takes a    *)
(* step only while the main coroutine is suspended in an await.            *)
(*                                                                         *)
(* Part 2: the resolvers of Maven, DVC, Hugging Face and Yarn Berry, each  *)
(* a sequential program that reads its lockfile, fetches, and returns a    *)
(* RequestOutput or raises.  Spec runs the fetcher, SpecResolvers runs one *)
(* resolver on one request.                                                *)
(*                                                                         *)
(* Part 3: the services of hermeto/core: git (scm.py), the error kinds     *)
(* (errors.py) and the configuration (config.py).  SpecCore runs one call  *)
(* of one of them.                                                         *)
(*                                                                         *)
(* Part 4: the parsers, filters and caches of the package managers: the    *)
(* Maven lockfile, the Bundler platform filter, the DVC components, the    *)
(* Yarn dispatcher and the Hugging Face cache.  SpecParsers runs one call  *)
(* of one of them.                                                         *)
(***************************************************************************)
EXTENDS Integers, Sequences, FiniteSets, TLC

VARIABLES
    \* ---- the fetcher ----
    pc,                 \* where the main coroutine async_download_files is
    concurrency_limit,  \* the argument concurrency_limit
    scheme,             \* scheme[u]: "http" or "oci", by url.startswith("oci://"),
                        \* "unread" until the loop reaches URL u
    idx,                \* position of the for loop in files_to_download
    tasks,              \* the local set `tasks`
    done,               \* the local set `done` of the last asyncio.wait
    status,             \* status[u]: state of the task of URL u
    attempts,           \* attempts[u]: requests made for the pending or failed
                        \* request of URL u (0 once a response has been accepted)
    cause,              \* cause[u]: why the task of URL u raised FetchError
    file,               \* file[u]: a file exists at the download_path of URL u
    nstarted,           \* nstarted[u]: number of create_task calls for URL u
    client_closed,      \* retry_client has been closed
    \* ---- the resolvers (one request, routed to one package manager) ----
    pm,                 \* the package manager of the request's packages
    mode,               \* request.mode: "strict" or "permissive"
    rpc,                \* where the resolver is
    rerr,               \* the error the resolver raised, "none" if none
    pkg,                \* position of the loop over the request's packages
    deps,               \* the dependencies (entries) of the lockfile being resolved
    ri,                 \* position of the loop over deps
    files,              \* files[i]: what the download of deps[i] left on disk
    components,         \* the resolver's local list of components
    project_files,      \* the resolver's local list of project files
    output,             \* <<the RequestOutput returned>>, <<>> until then
    fetch_log,          \* <<package, entry>> of every fetch attempted, in order
    failed_at,          \* <<package, entry>> of the fetch that failed, <<>> if none
    warnings,           \* the kinds of warning logged
    cache_dir,          \* DVC: deps/dvc/cache has been created under output_dir
    dvc_runs,           \* DVC: number of `dvc fetch` subprocesses started
    hf_refs,            \* Hugging Face: the refs files written, <<package, entry, name>>
    no_checksum,        \* <<package, entry>> of every dependency read without a checksum
    \* ---- the Yarn Berry resolver, _resolve_yarn_project on one project ----
    yarn_rc,            \* project.yarn_rc, the data in memory
    package_json,       \* project.package_json, the data in memory
    yarnrc_file,        \* .yarnrc.yml in the package directory
    package_json_file,  \* package.json in the package directory
    yarn_lock_file,     \* yarn.lock in the package directory
    yarn_orig,          \* the three files as they were before _resolve_yarn_project
    version,            \* the local `version`, 0 until it is set
    git_deps,           \* the local `git_deps`
    clones,             \* the sources passed to clone_repo_pack_archive, in order
    installs,           \* .yarnrc.yml as it was on disk at each `yarn install`
    \* ---- the services of hermeto/core ----
    op,                 \* the service called, "idle" if none
    spc,                \* where the call is
    serr,               \* the error the call raised, "none" if none
    url,                \* _clone_git_repo: the argument url
    list_url,           \* _clone_git_repo: the local list_url
    tried,              \* the URLs given to Repo.clone_from, in order, with the result
    origin,             \* get_repo_id: the URL of the remote "origin", <<>> if none
    origin_url,         \* RepoID.origin_url as returned
    again,              \* origin_url of a repository whose origin is origin_url
    submodules,         \* the working directories of the submodules of the checkout
    target,             \* get_repo_for_path: the argument target_path
    target_path,        \* the local target_path
    current_repo,       \* the working directory of the local current_repo
    relative_path,      \* the local relative_path
    classes,            \* the BaseError classes defined, each with its exit_code
    looked,             \* <<code and result of get_error_name_from_code>>
    places,             \* places[p]: the value place p gives the configuration key
    cli_config,         \* the command line names a configuration file
    config,             \* <<the key in the singleton `config`>>, <<>> for None
    \* ---- the parsers, filters and caches of the package managers ----
    fn,                 \* the function called, "idle" if none
    fpc,                \* where the call is
    lockfile_data,      \* MavenLockfile: the "dependencies" of lockfile.json, a tree
    dependencies,       \* MavenLockfile: the list _parse_dependencies returns
    gems_filter,        \* GemsFilter: self.packages and self.platform
    gems_arg,           \* apply_platform_filters: `gems` as it was passed
    gems,               \* apply_platform_filters: `gems`, updated in place
    gi,                 \* position of the loop over gems
    dvc_lockfile,       \* generate_sbom_components: the dependencies of the lockfile
    sbom,               \* generate_sbom_components: the components returned
    yarn_packages,      \* metayarn: what the resolvers do with each yarn package
    allow_yarnberry_processing, \* metayarn: the flag of Config
    yi,                 \* metayarn: position of the loop over the yarn packages
    calls,              \* metayarn: <<package, resolver>> of every resolver call
    fetched_packages,   \* metayarn: the local fetched_packages
    merr,               \* metayarn: the error fetch_yarn_source raised
    blobs,              \* HFCacheManager: the files of the repository cache directory
    snapshots,          \* HFCacheManager: the symlinks, each with its path and its link
    added               \* HFCacheManager: the content last added at each path

fetchVars == <<pc, concurrency_limit, scheme, idx, tasks, done, status,
               attempts, cause, file, nstarted, client_closed>>

resolverVars == <<pm, mode, rpc, rerr, pkg, deps, ri, files, components,
                  project_files, output, fetch_log, failed_at, warnings,
                  cache_dir, dvc_runs, hf_refs, no_checksum>>

yarnVars == <<yarn_rc, package_json, yarnrc_file, package_json_file,
              yarn_lock_file, yarn_orig, version, git_deps, clones, installs>>

cloneVars == <<url, list_url, tried>>
repoIdVars == <<origin, origin_url, again>>
pathVars == <<submodules, target, target_path, current_repo, relative_path>>
errorVars == <<classes, looked>>
configVars == <<places, cli_config, config>>

coreVars == <<op, spc, serr, cloneVars, repoIdVars, pathVars, errorVars,
              configVars>>

mavenLockfileVars == <<lockfile_data, dependencies>>

gemsVars == <<gems_filter, gems_arg, gems, gi>>

sbomVars == <<dvc_lockfile, sbom>>

metayarnVars == <<yarn_packages, allow_yarnberry_processing, yi, calls,
                  fetched_packages, merr>>

hfCacheVars == <<blobs, snapshots, added>>

parserVars == <<fn, fpc, mavenLockfileVars, gemsVars, sbomVars, metayarnVars,
                hfCacheVars>>

vars == <<fetchVars, resolverVars, yarnVars, coreVars, parserVars>>

----------------------------------------------------------------------------
(* Bounds of the model *)
NumUrls == 3
MaxLimit == 2
MaxPathLen == 2
MaxSubmodules == 2
MaxClasses == 4
MaxConfigValue == 2

(* DEFAULT_RETRY_OPTIONS["total"], read into num_attempts *)
RetryTotal == 5

Urls == 1..NumUrls
Schemes == {"http", "oci"}

Terminal == {"done", "failed", "cancelled"}
Running == {"created", "requesting", "manifest", "blob", "streaming"}

InFlight == {u \in Urls : status[u] \in Running}

(* The main coroutine is suspended in an await, so the loop runs the tasks *)
MainSuspended == pc \in {"wait", "gather", "except_close", "final", "exit_close"}

----------------------------------------------------------------------------
(* async_download_files: the main coroutine *)

FetchInit ==
    /\ pc = "loop"
    /\ concurrency_limit \in 1..MaxLimit
    /\ scheme = [u \in Urls |-> "unread"]
    /\ idx = 1
    /\ tasks = {}
    /\ done = {}
    /\ status = [u \in Urls |-> "none"]
    /\ attempts = [u \in Urls |-> 0]
    /\ cause = [u \in Urls |-> "none"]
    /\ file = [u \in Urls |-> FALSE]
    /\ nstarted = [u \in Urls |-> 0]
    /\ client_closed = FALSE

(* an off-by-one limit check: `if len(tasks) > concurrency_limit` *)
LimitReachedOffByOne(n, lim) == n > lim

(* `if len(tasks) >= concurrency_limit` *)
LimitReached(n, lim) == n >= lim

(* head of `for url, download_path in files_to_download.items()` *)
LoopHead ==
    /\ pc = "loop"
    /\ pc' = IF idx > NumUrls THEN "final"
             ELSE IF LimitReached(Cardinality(tasks), concurrency_limit) THEN "wait"
             ELSE "create"
    /\ UNCHANGED <<concurrency_limit, scheme, idx, tasks, done, status, attempts,
                   cause, file, nstarted, client_closed>>
    /\ UNCHANGED <<resolverVars, yarnVars, coreVars, parserVars>>

(* `if url.startswith("oci://")` picks the coroutine, then                  *)
(* tasks.add(asyncio.create_task(task)) for the URL at the loop position   *)
CreateTask ==
    /\ pc = "create"
    /\ \E s \in Schemes : scheme' = [scheme EXCEPT ![idx] = s]
    /\ status' = [status EXCEPT ![idx] = "created"]
    /\ nstarted' = [nstarted EXCEPT ![idx] = @ + 1]
    /\ tasks' = tasks \cup {idx}
    /\ idx' = idx + 1
    /\ pc' = "loop"
    /\ UNCHANGED <<concurrency_limit, done, attempts, cause, file, client_closed>>
    /\ UNCHANGED <<resolverVars, yarnVars, coreVars, parserVars>>

(* a wait that returns at once, whether or not a task has completed *)
WaitReadyAtOnce(ts) == TRUE

(* asyncio.wait(tasks, return_when=FIRST_COMPLETED) may return *)
WaitReady(ts) == \E t \in ts : status[t] \in Terminal

(* done, tasks = await asyncio.wait(tasks, return_when=FIRST_COMPLETED) *)
WaitReturn ==
    /\ pc = "wait"
    /\ WaitReady(tasks)
    /\ done' = {t \in tasks : status[t] \in Terminal}
    /\ tasks' = {t \in tasks : status[t] \notin Terminal}
    /\ pc' = "gather"
    /\ UNCHANGED <<concurrency_limit, scheme, idx, status, attempts, cause, file,
                   nstarted, client_closed>>
    /\ UNCHANGED <<resolverVars, yarnVars, coreVars, parserVars>>

(* await asyncio.gather over done: raises the FetchError of a failed task *)
GatherDone ==
    /\ pc = "gather"
    /\ pc' = IF \E t \in done : status[t] = "failed" THEN "except_close" ELSE "create"
    /\ UNCHANGED <<concurrency_limit, scheme, idx, tasks, done, status, attempts,
                   cause, file, nstarted, client_closed>>
    /\ UNCHANGED <<resolverVars, yarnVars, coreVars, parserVars>>

(* the tasks the except branch cancels: `for t in tasks: t.cancel()` *)
CancelledByExcept(ts) == {t \in ts : status[t] \in Running}

(* except FetchError: await retry_client.close(); cancel the pending tasks; raise *)
ExceptClose ==
    /\ pc = "except_close"
    /\ client_closed' = TRUE
    /\ status' = [u \in Urls |->
                    IF u \in CancelledByExcept(tasks) THEN "cancelled" ELSE status[u]]
    /\ cause' = [u \in Urls |->
                    IF u \in CancelledByExcept(tasks) THEN "cancel" ELSE cause[u]]
    /\ pc' = "raised"
    /\ UNCHANGED <<concurrency_limit, scheme, idx, tasks, done, attempts, file, nstarted>>
    /\ UNCHANGED <<resolverVars, yarnVars, coreVars, parserVars>>

(* the tasks the final gather cancels when one of them has failed: none *)
CancelledByFinal(ts) == {}

(* await asyncio.gather over tasks after the loop, not wrapped in try/except *)
FinalGather ==
    /\ pc = "final"
    /\ \/ /\ \E t \in tasks : status[t] = "failed"
          /\ status' = [u \in Urls |->
                          IF u \in CancelledByFinal(tasks) THEN "cancelled" ELSE status[u]]
          /\ cause' = [u \in Urls |->
                          IF u \in CancelledByFinal(tasks) THEN "cancel" ELSE cause[u]]
          /\ pc' = "exit_close"
       \/ /\ \A t \in tasks : status[t] = "done"
          /\ pc' = "exit_close"
          /\ UNCHANGED <<status, cause>>
    /\ UNCHANGED <<concurrency_limit, scheme, idx, tasks, done, attempts, file,
                   nstarted, client_closed>>
    /\ UNCHANGED <<resolverVars, yarnVars, coreVars, parserVars>>

(* leaving `async with retry_client as session`: __aexit__ closes the client *)
ExitClose ==
    /\ pc = "exit_close"
    /\ client_closed' = TRUE
    /\ pc' = IF \E t \in tasks : status[t] = "failed" THEN "raised" ELSE "returned"
    /\ UNCHANGED <<concurrency_limit, scheme, idx, tasks, done, status, attempts,
                   cause, file, nstarted>>
    /\ UNCHANGED <<resolverVars, yarnVars, coreVars, parserVars>>

(* asyncio.run(...) of the caller: once the main coroutine is over it cancels *)
(* every task still pending and closes the loop                               *)
AsyncioRunTeardown ==
    /\ pc \in {"raised", "returned"}
    /\ status' = [u \in Urls |-> IF status[u] \in Running THEN "cancelled" ELSE status[u]]
    /\ cause' = [u \in Urls |-> IF status[u] \in Running THEN "cancel" ELSE cause[u]]
    /\ pc' = IF pc = "raised" THEN "run_raised" ELSE "run_returned"
    /\ UNCHANGED <<concurrency_limit, scheme, idx, tasks, done, attempts, file,
                   nstarted, client_closed>>
    /\ UNCHANGED <<resolverVars, yarnVars, coreVars, parserVars>>

----------------------------------------------------------------------------
(* the download tasks *)

Responses == {"ok", "4xx", "5xx", "transient"}

taskFrame == <<pc, concurrency_limit, scheme, idx, tasks, done, nstarted,
              client_closed, resolverVars, yarnVars, coreVars, parserVars>>

(* first step of a task: the coroutine runs up to its first request *)
TaskStart(u) ==
    /\ MainSuspended
    /\ status[u] = "created"
    /\ status' = [status EXCEPT ![u] = IF scheme[u] = "oci" THEN "manifest" ELSE "requesting"]
    /\ attempts' = [attempts EXCEPT ![u] = 1]
    /\ UNCHANGED <<cause, file>>
    /\ UNCHANGED taskFrame

(* JitterRetry(attempts=num_attempts, retry_all_server_errors=True): *)
(* the response r is retried while attempts remain                    *)
Retried(r, n) == r \in {"5xx", "transient"} /\ n < RetryTotal

(* _async_download_binary_file: session.get(url, raise_for_status=True) *)
(* through the retry client, then open(download_path, "wb")             *)
HttpResponse(u, r) ==
    /\ MainSuspended
    /\ status[u] = "requesting"
    /\ IF r = "ok"
         THEN /\ status' = [status EXCEPT ![u] = "streaming"]
              /\ file' = [file EXCEPT ![u] = TRUE]
              /\ attempts' = [attempts EXCEPT ![u] = 0]
              /\ UNCHANGED cause
         ELSE IF Retried(r, attempts[u])
         THEN /\ attempts' = [attempts EXCEPT ![u] = @ + 1]
              /\ UNCHANGED <<status, file, cause>>
         ELSE /\ status' = [status EXCEPT ![u] = "failed"]
              /\ cause' = [cause EXCEPT ![u] = r]
              /\ UNCHANGED <<attempts, file>>
    /\ UNCHANGED taskFrame

(* the file left at download_path when the body stream fails *)
FileAfterStreamError(f) == f

(* the chunk loop: the body ends (ok = TRUE) or reading it raises *)
StreamEnd(u, ok) ==
    /\ MainSuspended
    /\ status[u] = "streaming"
    /\ IF ok
         THEN /\ status' = [status EXCEPT ![u] = "done"]
              /\ UNCHANGED <<cause, file>>
         ELSE /\ status' = [status EXCEPT ![u] = "failed"]
              /\ cause' = [cause EXCEPT ![u] = "stream"]
              /\ file' = [file EXCEPT ![u] = FileAfterStreamError(@)]
    /\ UNCHANGED attempts
    /\ UNCHANGED taskFrame

(* _async_download_oci_file: the manifest request on a plain ClientSession; *)
(* a status other than 200, an error or a manifest without layers raises    *)
OciManifest(u, r) ==
    /\ MainSuspended
    /\ status[u] = "manifest"
    /\ IF r = "ok"
         THEN /\ status' = [status EXCEPT ![u] = "blob"]
              /\ UNCHANGED cause
         ELSE /\ status' = [status EXCEPT ![u] = "failed"]
              /\ cause' = [cause EXCEPT ![u] = r]
    /\ UNCHANGED <<attempts, file>>
    /\ UNCHANGED taskFrame

(* _async_download_oci_file: the blob request, then open(download_path, 'wb') *)
OciBlob(u, r) ==
    /\ MainSuspended
    /\ status[u] = "blob"
    /\ IF r = "ok"
         THEN /\ status' = [status EXCEPT ![u] = "streaming"]
              /\ file' = [file EXCEPT ![u] = TRUE]
              /\ attempts' = [attempts EXCEPT ![u] = 0]
              /\ UNCHANGED cause
         ELSE /\ status' = [status EXCEPT ![u] = "failed"]
              /\ cause' = [cause EXCEPT ![u] = r]
              /\ UNCHANGED <<file, attempts>>
    /\ UNCHANGED taskFrame

TaskStep ==
    \E u \in Urls :
        \/ TaskStart(u)
        \/ \E r \in Responses : HttpResponse(u, r)
        \/ \E ok \in BOOLEAN : StreamEnd(u, ok)
        \/ \E r \in Responses \cup {"nolayers"} : OciManifest(u, r)
        \/ \E r \in Responses : OciBlob(u, r)

FetchNext ==
    \/ LoopHead
    \/ CreateTask
    \/ WaitReturn
    \/ GatherDone
    \/ ExceptClose
    \/ FinalGather
    \/ ExitClose
    \/ AsyncioRunTeardown
    \/ TaskStep

----------------------------------------------------------------------------
(* The resolvers.  A request carries packages of one package manager, a    *)
(* mode, and is resolved by fetch_<pm>_source, which either returns a      *)
(* RequestOutput or raises.                                                *)

(* Bounds of the resolvers *)
NumPkgs == 2
MaxDeps == 1

Pkgs == 1..NumPkgs
Modes == {"strict", "permissive"}

(* Every list of at most MaxDeps elements of S *)
ListsOf(S) == UNION {[1..n -> S] : n \in 0..MaxDeps}

(* an error that is recorded while the resolver goes on with its loop *)
RaiseAndGoOn(kind) ==
    /\ rpc' = (CASE pm = "maven" -> "mvn_loop"
                 [] pm = "dvc" -> "dvc_loop"
                 [] pm = "huggingface" -> "hf_pkg"
                 [] OTHER -> "y_set_yarnrc")
    /\ rerr' = kind

(* raise: the exception leaves fetch_<pm>_source, nothing is returned *)
Raise(kind) ==
    /\ rpc' = "raised"
    /\ rerr' = kind

ResolverIdle ==
    /\ pm = "none"
    /\ mode = "strict"
    /\ rpc = "idle"
    /\ rerr = "none"
    /\ pkg = 1
    /\ deps = <<>>
    /\ ri = 1
    /\ files = <<>>
    /\ components = <<>>
    /\ project_files = <<>>
    /\ output = <<>>
    /\ fetch_log = <<>>
    /\ failed_at = <<>>
    /\ warnings = {}
    /\ cache_dir = FALSE
    /\ dvc_runs = 0
    /\ hf_refs = {}
    /\ no_checksum = {}

ResolverInit(p, start) ==
    /\ pm = p
    /\ mode \in Modes
    /\ rpc = start
    /\ rerr = "none"
    /\ pkg = 1
    /\ deps = <<>>
    /\ ri = 1
    /\ files = <<>>
    /\ components = <<>>
    /\ project_files = <<>>
    /\ output = <<>>
    /\ fetch_log = <<>>
    /\ failed_at = <<>>
    /\ warnings = {}
    /\ cache_dir = FALSE
    /\ dvc_runs = 0
    /\ hf_refs = {}
    /\ no_checksum = {}

(* The fetcher is not running *)
FetchIdle ==
    /\ pc = "idle"
    /\ concurrency_limit = 1
    /\ scheme = [u \in Urls |-> "unread"]
    /\ idx = 1
    /\ tasks = {}
    /\ done = {}
    /\ status = [u \in Urls |-> "none"]
    /\ attempts = [u \in Urls |-> 0]
    /\ cause = [u \in Urls |-> "none"]
    /\ file = [u \in Urls |-> FALSE]
    /\ nstarted = [u \in Urls |-> 0]
    /\ client_closed = FALSE

(* RequestOutput.from_obj_list *)
RequestOutput(comps, pfiles) ==
    [components |-> comps, environment_variables |-> <<>>, project_files |-> pfiles]

----------------------------------------------------------------------------
(* Maven: fetch_maven_source, _resolve_maven, _get_maven_dependencies *)

(* A key of JAVA_TO_PYTHON_CHECKSUM_ALGORITHMS and a name that is not one; *)
(* "none" is a dependency without checksumAlgorithm                       *)
MavenAlgorithms == {"none", "SHA-256", "SHA3-999"}

(* _convert_java_checksum_algorithm_to_python *)
ConvertAlgorithm(java_algorithm) ==
    CASE java_algorithm = "SHA-256" -> "sha256"
      [] java_algorithm = "MD5" -> "md5"
      [] OTHER -> "PackageRejected"

(* The included dependencies of a lockfile.json that have a resolved URL *)
MavenDeps == [checksum : BOOLEAN, checksum_algorithm : MavenAlgorithms]

(* What a successful download leaves: does the artifact match the lockfile *)
(* checksum, does the .pom match the checksum file fetched with it         *)
MavenFiles == [artifact_ok : BOOLEAN, pom_ok : BOOLEAN]

(* must_match_any_checksum: returns when the file matches, raises otherwise *)
must_match_any_checksum(matches) ==
    IF matches THEN "ok" ELSE "ChecksumVerificationFailed"

(* MavenDependency.to_component_info, then _generate_component_list *)
MavenComponent(p, i, d) ==
    [pm |-> "maven", pkg |-> p, dep |-> i, type |-> "maven",
     properties |-> IF d.checksum THEN {} ELSE {"missing_hash_in_file"}]

(* MavenLockfile.get_main_package *)
MavenMainPackage(p) ==
    [pm |-> "maven", pkg |-> p, dep |-> 0, type |-> "maven", properties |-> {}]

mavenFrame == <<pm, mode, cache_dir, dvc_runs, hf_refs, yarnVars, fetchVars, coreVars, parserVars>>

MavenInit == ResolverInit("maven", "mvn_loop")

(* for package in request.maven_packages: _resolve_maven reads lockfile.json; *)
(* after the last package the RequestOutput is returned                     *)
MvnLoopHead ==
    /\ pm = "maven" /\ rpc = "mvn_loop"
    /\ IF pkg > NumPkgs
       THEN /\ output' = <<RequestOutput(components, project_files)>>
            /\ rpc' = "returned"
            /\ UNCHANGED <<rerr, deps>>
       ELSE /\ \E lockfile \in {"missing", "invalid", "ok"} :
                CASE lockfile = "missing" ->
                        Raise("PackageRejected") /\ UNCHANGED deps
                  [] lockfile = "invalid" ->
                        Raise("UnexpectedFormat") /\ UNCHANGED deps
                  [] OTHER ->
                        /\ deps' \in ListsOf(MavenDeps)
                        /\ rpc' = "mvn_plan"
                        /\ UNCHANGED rerr
            /\ UNCHANGED output
    /\ no_checksum' = no_checksum \cup
                        {<<pkg, i>> : i \in {j \in DOMAIN deps' : ~deps'[j].checksum}}
    /\ UNCHANGED <<pkg, ri, files, components, project_files, fetch_log,
                   failed_at, warnings>>
    /\ UNCHANGED mavenFrame

(* The two loops that plan the downloads: the second converts the algorithm *)
(* of every dependency that has one                                         *)
MvnPlan ==
    /\ pm = "maven" /\ rpc = "mvn_plan"
    /\ IF \E i \in DOMAIN deps :
              /\ deps[i].checksum_algorithm # "none"
              /\ ConvertAlgorithm(deps[i].checksum_algorithm) = "PackageRejected"
       THEN Raise("PackageRejected")
       ELSE rpc' = "mvn_download" /\ UNCHANGED rerr
    /\ UNCHANGED <<pkg, deps, ri, files, components, project_files, output,
                   fetch_log, failed_at, warnings>>
    /\ UNCHANGED <<no_checksum, mavenFrame>>

(* asyncio.run(async_download_files(all_files_to_download, ...)), skipped *)
(* when there is nothing to download                                     *)
MvnDownload ==
    /\ pm = "maven" /\ rpc = "mvn_download"
    /\ IF deps = <<>>
       THEN /\ rpc' = "mvn_verify"
            /\ UNCHANGED <<rerr, files, fetch_log, failed_at>>
       ELSE /\ fetch_log' = Append(fetch_log, <<pkg, 0>>)
            /\ \/ /\ Raise("FetchError")
                  /\ failed_at' = <<pkg, 0>>
                  /\ UNCHANGED files
               \/ /\ files' \in [DOMAIN deps -> MavenFiles]
                  /\ rpc' = "mvn_verify"
                  /\ UNCHANGED <<rerr, failed_at>>
    /\ ri' = 1
    /\ UNCHANGED <<pkg, deps, components, project_files, output, warnings>>
    /\ UNCHANGED <<no_checksum, mavenFrame>>

(* One iteration of the loop that verifies the artifacts *)
MvnVerifyArtifact ==
    /\ pm = "maven" /\ rpc = "mvn_verify"
    /\ IF ri > Len(deps)
       THEN /\ rpc' = "mvn_verify_pom"
            /\ ri' = 1
            /\ UNCHANGED <<rerr, failed_at, warnings>>
       ELSE IF deps[ri].checksum /\ deps[ri].checksum_algorithm # "none"
            THEN IF must_match_any_checksum(files[ri].artifact_ok) = "ok"
                 THEN /\ ri' = ri + 1
                      /\ UNCHANGED <<rpc, rerr, failed_at, warnings>>
                 ELSE /\ Raise(must_match_any_checksum(files[ri].artifact_ok))
                      /\ failed_at' = <<pkg, 0>>
                      /\ UNCHANGED <<ri, warnings>>
            ELSE /\ warnings' = warnings \cup {"missing_checksum"}
                 /\ ri' = ri + 1
                 /\ UNCHANGED <<rpc, rerr, failed_at>>
    /\ UNCHANGED <<pkg, deps, files, components, project_files, output, fetch_log>>
    /\ UNCHANGED <<no_checksum, mavenFrame>>

(* One iteration of the loop that verifies the .pom files: the checksum    *)
(* file was downloaded with the .pom, and whatever the verification raises *)
(* is caught and logged as a warning                                       *)
MvnVerifyPom ==
    /\ pm = "maven" /\ rpc = "mvn_verify_pom"
    /\ IF ri > Len(deps)
       THEN /\ rpc' = "mvn_finish"
            /\ UNCHANGED <<ri, rerr, failed_at, warnings>>
       ELSE IF deps[ri].checksum_algorithm # "none"
            THEN IF must_match_any_checksum(files[ri].pom_ok) = "ok"
                 THEN /\ ri' = ri + 1
                      /\ UNCHANGED <<rpc, rerr, failed_at, warnings>>
                 ELSE /\ warnings' = warnings \cup {"pom_verify_failed"}
                      /\ ri' = ri + 1
                      /\ UNCHANGED <<rpc, rerr, failed_at>>
            ELSE /\ ri' = ri + 1
                 /\ UNCHANGED <<rpc, rerr, failed_at, warnings>>
    /\ UNCHANGED <<pkg, deps, files, components, project_files, output, fetch_log>>
    /\ UNCHANGED <<no_checksum, mavenFrame>>

(* _get_maven_dependencies returns, _resolve_maven builds its result and the *)
(* loop of fetch_maven_source appends it                                     *)
MvnFinish ==
    /\ pm = "maven" /\ rpc = "mvn_finish"
    /\ components' = components \o <<MavenMainPackage(pkg)>>
                       \o [i \in DOMAIN deps |-> MavenComponent(pkg, i, deps[i])]
    /\ project_files' = Append(project_files, <<pkg, "lockfile.json">>)
    /\ pkg' = pkg + 1
    /\ deps' = <<>>
    /\ files' = <<>>
    /\ ri' = 1
    /\ rpc' = "mvn_loop"
    /\ UNCHANGED <<rerr, output, fetch_log, failed_at, warnings>>
    /\ UNCHANGED <<no_checksum, mavenFrame>>

MavenNext ==
    \/ MvnLoopHead
    \/ MvnPlan
    \/ MvnDownload
    \/ MvnVerifyArtifact
    \/ MvnVerifyPom
    \/ MvnFinish

----------------------------------------------------------------------------
(* DVC: fetch_dvc_source, _resolve_dvc_lockfile, _run_dvc_fetch and the     *)
(* parser's load_dvc_lockfile, validate_checksums_present and               *)
(* generate_sbom_components                                                 *)

(* A dependency of a stage of dvc.lock: where its path points and whether   *)
(* it has a checksum.  "hf_gpt2" and "hf_squad" are URLs of files of two    *)
(* Hugging Face repositories that HF_URL_PATTERN matches, "hf_odd" is a URL *)
(* that contains huggingface.co and does not match.                         *)
DvcPaths == {"local", "generic", "hf_odd", "hf_gpt2", "hf_squad"}
DvcDeps == [path : DvcPaths, checksum : BOOLEAN]

(* DVCDep.is_external_url *)
is_external_url(d) == d.path # "local"

(* DVCLockfile.get_all_external_deps, as positions in the lockfile *)
ExternalDeps(ds) == {i \in DOMAIN ds : is_external_url(ds[i])}

(* A validation that finds no missing checksum *)
MissingChecksumsNone(ds) == {}

(* The list missing_checksums of validate_checksums_present *)
MissingChecksums(ds) == {i \in ExternalDeps(ds) : ~ds[i].checksum}

(* What validate_checksums_present raises in strict mode *)
DvcStrictError == "PackageRejected"

(* _create_huggingface_component and _create_generic_component: neither *)
(* gives the component any property                                     *)
DvcComponent(p, i, type) ==
    [pm |-> "dvc", pkg |-> p, dep |-> i, type |-> type, properties |-> {}]

(* _is_huggingface_url: "huggingface.co" in url *)
_is_huggingface_url(path) == path \in {"hf_odd", "hf_gpt2", "hf_squad"}

(* _parse_huggingface_url: the repo_id, "None" if the pattern does not match *)
_parse_huggingface_url(path) ==
    CASE path = "hf_gpt2" -> "gpt2"
      [] path = "hf_squad" -> "squad"
      [] OTHER -> "None"

(* The dependency goes to hf_deps_by_repo, or to generic_deps *)
IsHfDep(d) == _is_huggingface_url(d.path) /\ _parse_huggingface_url(d.path) # "None"
IsGenericDep(d) == ~IsHfDep(d)

(* The elements of a set of positions, in the order of the lockfile *)
RECURSIVE InOrder(_)
InOrder(S) ==
    IF S = {} THEN <<>>
    ELSE LET m == CHOOSE x \in S : \A y \in S : x <= y
         IN  <<m>> \o InOrder(S \ {m})

(* One Hugging Face component for every Hugging Face dependency *)
SbomWithoutGrouping(p, ds) ==
    LET hf == InOrder({i \in ExternalDeps(ds) : IsHfDep(ds[i])})
        generic == InOrder({i \in ExternalDeps(ds) : IsGenericDep(ds[i])})
    IN  [k \in DOMAIN hf |-> DvcComponent(p, hf[k], "huggingface")]
        \o [k \in DOMAIN generic |-> DvcComponent(p, generic[k], "generic")]

(* generate_sbom_components: one component for each key of hf_deps_by_repo, *)
(* in the order the keys were inserted and named by the first dependency of *)
(* the repository, then one for each element of generic_deps                *)
generate_sbom_components(p, ds) ==
    LET hf == {i \in ExternalDeps(ds) : IsHfDep(ds[i])}
        first == InOrder({i \in hf : \A j \in hf :
                            _parse_huggingface_url(ds[j].path)
                               = _parse_huggingface_url(ds[i].path) => i <= j})
        generic == InOrder({i \in ExternalDeps(ds) : IsGenericDep(ds[i])})
    IN  [k \in DOMAIN first |-> DvcComponent(p, first[k], "huggingface")]
        \o [k \in DOMAIN generic |-> DvcComponent(p, generic[k], "generic")]

dvcFrame == <<pm, mode, ri, files, project_files, hf_refs, yarnVars, fetchVars, coreVars, parserVars>>

DvcInit == ResolverInit("dvc", "dvc_loop")

(* for package in request.dvc_packages: load_dvc_lockfile; after the last *)
(* package the RequestOutput is returned                                  *)
DvcLoopHead ==
    /\ pm = "dvc" /\ rpc = "dvc_loop"
    /\ IF pkg > NumPkgs
       THEN /\ output' = <<RequestOutput(components, <<>>)>>
            /\ rpc' = "returned"
            /\ UNCHANGED <<rerr, deps>>
       ELSE /\ \E lockfile \in {"missing", "bad_yaml", "empty", "invalid", "ok"} :
                IF lockfile # "ok"
                THEN Raise("PackageRejected") /\ UNCHANGED deps
                ELSE /\ deps' \in ListsOf(DvcDeps)
                     /\ rpc' = "dvc_validate"
                     /\ UNCHANGED rerr
            /\ UNCHANGED output
    /\ no_checksum' = no_checksum \cup {<<pkg, i>> : i \in MissingChecksums(deps')}
    /\ UNCHANGED <<pkg, components, fetch_log, failed_at, warnings, cache_dir, dvc_runs>>
    /\ UNCHANGED dvcFrame

(* validate_checksums_present(lockfile, strict = request.mode == STRICT) *)
DvcValidate ==
    /\ pm = "dvc" /\ rpc = "dvc_validate"
    /\ IF MissingChecksums(deps) # {}
       THEN IF mode = "strict"
            THEN Raise(DvcStrictError) /\ UNCHANGED warnings
            ELSE /\ warnings' = warnings \cup {"missing_checksum"}
                 /\ rpc' = "dvc_mkdir"
                 /\ UNCHANGED rerr
       ELSE /\ rpc' = "dvc_mkdir"
            /\ UNCHANGED <<rerr, warnings>>
    /\ UNCHANGED <<pkg, deps, components, output, fetch_log, failed_at, cache_dir, dvc_runs>>
    /\ UNCHANGED <<no_checksum, dvcFrame>>

(* cache_dir.path.mkdir(parents=True, exist_ok=True) *)
DvcMkdir ==
    /\ pm = "dvc" /\ rpc = "dvc_mkdir"
    /\ cache_dir' = TRUE
    /\ rpc' = "dvc_fetch"
    /\ UNCHANGED <<rerr, pkg, deps, components, output, fetch_log, failed_at,
                   warnings, dvc_runs>>
    /\ UNCHANGED <<no_checksum, dvcFrame>>

(* _run_dvc_fetch, then generate_sbom_components and components.extend *)
DvcFetch ==
    /\ pm = "dvc" /\ rpc = "dvc_fetch"
    /\ \E result \in {"not_found", "nonzero", "ok"} :
          CASE result = "not_found" ->
                  /\ Raise("PackageRejected")
                  /\ UNCHANGED <<pkg, deps, components, fetch_log, failed_at, dvc_runs>>
            [] result = "nonzero" ->
                  /\ Raise("PackageRejected")
                  /\ dvc_runs' = dvc_runs + 1
                  /\ fetch_log' = Append(fetch_log, <<pkg, 0>>)
                  /\ failed_at' = <<pkg, 0>>
                  /\ UNCHANGED <<pkg, deps, components>>
            [] OTHER ->
                  /\ dvc_runs' = dvc_runs + 1
                  /\ fetch_log' = Append(fetch_log, <<pkg, 0>>)
                  /\ components' = components \o generate_sbom_components(pkg, deps)
                  /\ pkg' = pkg + 1
                  /\ deps' = <<>>
                  /\ rpc' = "dvc_loop"
                  /\ UNCHANGED <<rerr, failed_at>>
    /\ UNCHANGED <<output, warnings, cache_dir>>
    /\ UNCHANGED <<no_checksum, dvcFrame>>

DvcNext ==
    \/ DvcLoopHead
    \/ DvcValidate
    \/ DvcMkdir
    \/ DvcFetch

----------------------------------------------------------------------------
(* Hugging Face: fetch_huggingface_source, _resolve_huggingface_lockfile, *)
(* _fetch_model                                                           *)

(* An entry of lockfile.models *)
HfEntries == [type : {"model", "dataset"}, include_patterns : {"none", "safe", "unsafe"}]

(* The attributes of HuggingFaceModel: its fields and its properties *)
HuggingFaceModelAttributes ==
    {"repository", "revision", "type", "include_patterns", "model_config",
     "namespace", "name", "purl_name", "purl_namespace"}

(* model_entry.<attr>: the name of the attribute, or the AttributeError that *)
(* reading an attribute the class does not have raises                       *)
GetAttr(attr) ==
    IF attr \in HuggingFaceModelAttributes THEN attr ELSE "AttributeError"

(* HuggingFaceModel.get_sbom_component *)
HfComponent(p, i) ==
    [pm |-> "huggingface", pkg |-> p, dep |-> i, type |-> "huggingface",
     properties |-> {}]

hfFrame == <<pm, mode, files, project_files, cache_dir, dvc_runs, no_checksum,
            yarnVars, fetchVars, coreVars, parserVars>>

HfInit == ResolverInit("huggingface", "hf_pkg")

(* for package in request.huggingface_packages: the checks that            *)
(* _resolve_huggingface_lockfile makes, then _load_lockfile; after the     *)
(* last package the RequestOutput is returned                              *)
HfPackage ==
    /\ pm = "huggingface" /\ rpc = "hf_pkg"
    /\ IF pkg > NumPkgs
       THEN /\ output' = <<RequestOutput(components, <<>>)>>
            /\ rpc' = "returned"
            /\ UNCHANGED <<rerr, deps>>
       ELSE /\ \E lockfile \in {"not_absolute", "offline", "missing", "bad_yaml",
                                "invalid", "ok"} :
                IF lockfile # "ok"
                THEN Raise("PackageRejected") /\ UNCHANGED deps
                ELSE /\ deps' \in ListsOf(HfEntries)
                     /\ rpc' = "hf_loop"
                     /\ UNCHANGED rerr
            /\ UNCHANGED output
    /\ ri' = 1
    /\ UNCHANGED <<pkg, components, fetch_log, failed_at, warnings, hf_refs>>
    /\ UNCHANGED hfFrame

(* for model_entry in lockfile.models: _check_unsafe_patterns, then the    *)
(* snapshot_download of _fetch_model; after the last entry the components  *)
(* of the lockfile are returned to the package loop                        *)
HfFetchModel ==
    /\ pm = "huggingface" /\ rpc = "hf_loop"
    /\ IF ri > Len(deps)
       THEN /\ pkg' = pkg + 1
            /\ deps' = <<>>
            /\ rpc' = "hf_pkg"
            /\ UNCHANGED <<rerr, fetch_log, failed_at, warnings>>
       ELSE /\ warnings' = IF deps[ri].include_patterns \in {"none", "unsafe"}
                           THEN warnings \cup {"unsafe_patterns"}
                           ELSE warnings
            /\ fetch_log' = Append(fetch_log, <<pkg, ri>>)
            /\ \E snapshot \in {"ok", "404", "error"} :
                  IF snapshot = "ok"
                  THEN /\ rpc' = "hf_ref"
                       /\ UNCHANGED <<rerr, failed_at>>
                  ELSE /\ Raise("PackageRejected")
                       /\ failed_at' = <<pkg, ri>>
            /\ UNCHANGED <<pkg, deps>>
    /\ UNCHANGED <<ri, components, output, hf_refs>>
    /\ UNCHANGED hfFrame

(* The rest of _fetch_model: refs_dir.mkdir, the write of the ref file      *)
(* named model_entry.ref, the load of a dataset, the component              *)
HfWriteRef ==
    /\ pm = "huggingface" /\ rpc = "hf_ref"
    /\ IF GetAttr("ref") = "AttributeError"
       THEN /\ hf_refs' = hf_refs \cup {<<pkg, ri, "refs/">>}
            /\ Raise("AttributeError")
            /\ failed_at' = <<pkg, ri>>
            /\ UNCHANGED <<ri, components, warnings>>
       ELSE /\ hf_refs' = hf_refs \cup {<<pkg, ri, "refs/">>, <<pkg, ri, GetAttr("ref")>>}
            /\ \E loaded \in BOOLEAN :
                  warnings' = IF deps[ri].type = "dataset" /\ ~loaded
                              THEN warnings \cup {"dataset_load"}
                              ELSE warnings
            /\ components' = Append(components, HfComponent(pkg, ri))
            /\ ri' = ri + 1
            /\ rpc' = "hf_loop"
            /\ UNCHANGED <<rerr, failed_at>>
    /\ UNCHANGED <<pkg, deps, output, fetch_log>>
    /\ UNCHANGED hfFrame

HfNext ==
    \/ HfPackage
    \/ HfFetchModel
    \/ HfWriteRef

----------------------------------------------------------------------------
(* Yarn Berry: _resolve_yarn_project on one project, with the functions it *)
(* calls and the YarnRc and PackageJson objects of yarn/project.py         *)

(* Bound of the Yarn resolver *)
MaxGitDeps == 2

(* Major versions of Yarn around the supported range; 0 stands for None *)
YarnVersions == {0, 2, 3, 4, 5}

(* A git dependency of yarn.lock: its name and its (clone_url, ref) *)
GitNames == {"a", "b"}
GitSources == {"s1", "s2"}
GitDep == [name : GitNames, source : GitSources]
GitDepLists == UNION {[1..n -> GitDep] : n \in 0..MaxGitDeps}

(* The data of a .yarnrc.yml: yarnPath as the version it names, the two     *)
(* settings the resolver toggles ("unset", "true" or "false"), and          *)
(* `hardened` for the other settings that _set_yarnrc_configuration assigns *)
EmptyYarnRc ==
    [yarnPath |-> 0, hardened |-> FALSE,
     enableImmutableInstalls |-> "unset", enableScripts |-> "unset"]

(* A resolution of package.json: none, the project's own, the absolute path *)
(* of a tarball or its ${output_dir} template                               *)
NoResolution == <<"none", "">>
OwnResolution == <<"own", "">>

(* The packageManager of package.json: absent, or name@version *)
PackageManagers ==
    {[name |-> "none", version |-> 0], [name |-> "npm", version |-> 3]}
        \cup {[name |-> "yarn", version |-> v] : v \in YarnVersions \ {0}}

(* get_semver_from_yarn_path on the yarnPath of the model *)
get_semver_from_yarn_path(yarn_path) == yarn_path

(* get_semver_from_package_manager: None, the version, or UnexpectedFormat *)
get_semver_from_package_manager(package_manager) ==
    IF package_manager.name = "none" THEN 0
    ELSE IF package_manager.name # "yarn" THEN -1
    ELSE package_manager.version

(* a range that includes its upper end *)
InClosedRange(v) == 3 <= v /\ v <= 5

(* version in VersionsRange("3.0.0", "5.0.0") *)
InSupportedRange(v) == 3 <= v /\ v < 5

(* The packageManager that _configure_yarn_version leaves in package.json *)
ConfiguredPackageManager(package_manager, package_manager_version, yarn_path_version) ==
    IF package_manager_version = 0
    THEN [name |-> "yarn", version |-> yarn_path_version]
    ELSE package_manager

YarnIdle ==
    /\ yarn_rc = EmptyYarnRc
    /\ package_json = [packageManager |-> [name |-> "none", version |-> 0],
                       resolutions |-> [n \in GitNames |-> NoResolution]]
    /\ yarnrc_file = [exists |-> FALSE, data |-> EmptyYarnRc]
    /\ package_json_file = package_json
    /\ yarn_lock_file = "orig"
    /\ yarn_orig = [yarnrc |-> yarnrc_file, package_json |-> package_json_file,
                    yarn_lock |-> yarn_lock_file]
    /\ version = 0
    /\ git_deps = <<>>
    /\ clones = <<>>
    /\ installs = <<>>

(* Project.from_source_dir has read the two files; a missing .yarnrc.yml is *)
(* read as the empty dictionary                                             *)
YarnInit ==
    /\ ResolverInit("yarn", "y_version")
    /\ \E exists \in BOOLEAN, yp \in YarnVersions, own \in BOOLEAN :
          /\ yarnrc_file =
                [exists |-> exists,
                 data |-> IF exists
                          THEN [yarnPath |-> yp, hardened |-> FALSE,
                                enableImmutableInstalls |-> IF own THEN "false" ELSE "unset",
                                enableScripts |-> IF own THEN "true" ELSE "unset"]
                          ELSE EmptyYarnRc]
          /\ yarn_rc = yarnrc_file.data
          /\ \E pmgr \in PackageManagers :
                package_json =
                    [packageManager |-> pmgr,
                     resolutions |-> [n \in GitNames |->
                                         IF own /\ n = "a" THEN OwnResolution
                                         ELSE NoResolution]]
    /\ package_json_file = package_json
    /\ yarn_lock_file = "orig"
    /\ yarn_orig = [yarnrc |-> yarnrc_file, package_json |-> package_json_file,
                    yarn_lock |-> yarn_lock_file]
    /\ version = 0
    /\ git_deps = <<>>
    /\ clones = <<>>
    /\ installs = <<>>

yarnFrame == <<pm, mode, pkg, deps, files, fetch_log, failed_at, cache_dir,
               dvc_runs, hf_refs, no_checksum, yarn_orig, fetchVars,
               coreVars, parserVars>>

(* _configure_yarn_version, with _verify_corepack_yarn_version *)
ConfigureYarnVersion ==
    /\ pm = "yarn" /\ rpc = "y_version"
    /\ LET yarn_path_version == get_semver_from_yarn_path(yarn_rc.yarnPath)
           package_manager_version ==
               get_semver_from_package_manager(package_json.packageManager)
           v == IF yarn_path_version # 0 THEN yarn_path_version
                ELSE package_manager_version
       IN  IF package_manager_version = -1
           THEN /\ Raise("UnexpectedFormat")
                /\ UNCHANGED <<package_json, package_json_file, version>>
           ELSE IF \/ v = 0
                   \/ ~InSupportedRange(v)
                   \/ /\ yarn_path_version # 0
                      /\ package_manager_version # 0
                      /\ yarn_path_version # package_manager_version
           THEN /\ Raise("PackageRejected")
                /\ UNCHANGED <<package_json, package_json_file, version>>
           ELSE /\ package_json' =
                      [package_json EXCEPT !.packageManager =
                          ConfiguredPackageManager(@, package_manager_version,
                                                   yarn_path_version)]
                /\ package_json_file' =
                      IF package_manager_version = 0 THEN package_json'
                      ELSE package_json_file
                /\ \E installed_ok \in BOOLEAN :
                      IF installed_ok
                      THEN /\ version' = v
                           /\ rpc' = "y_verify"
                           /\ UNCHANGED rerr
                      ELSE /\ Raise("PackageManagerError")
                           /\ UNCHANGED version
    /\ UNCHANGED <<ri, components, project_files, output, warnings, yarn_rc,
                   yarnrc_file, yarn_lock_file, git_deps, clones, installs>>
    /\ UNCHANGED yarnFrame

(* _verify_repository, then _parse_lockfile_git_deps *)
VerifyAndParseLockfile ==
    /\ pm = "yarn" /\ rpc = "y_verify"
    /\ \E found \in {"bad_path", "zero_installs", "no_lockfile", "bad_locator", "ok"} :
          CASE found \in {"bad_path", "zero_installs", "bad_locator"} ->
                  Raise("PackageRejected") /\ UNCHANGED git_deps
            [] found = "no_lockfile" ->
                  Raise("LockfileNotFound") /\ UNCHANGED git_deps
            [] OTHER ->
                  /\ git_deps' \in GitDepLists
                  /\ rpc' = IF git_deps' # <<>> THEN "y_collisions" ELSE "y_set_yarnrc"
                  /\ UNCHANGED rerr
    /\ UNCHANGED <<ri, components, project_files, output, warnings, yarn_rc,
                   package_json, yarnrc_file, package_json_file, yarn_lock_file,
                   version, clones, installs>>
    /\ UNCHANGED yarnFrame

(* a check that finds no collision *)
NameCollisionNever(ds) == FALSE

(* Two git dependencies have the same name and different sources *)
NameCollision(ds) ==
    \E i, j \in DOMAIN ds : ds[i].name = ds[j].name /\ ds[i].source # ds[j].source

(* The first loop of _clone_and_resolve_git_deps *)
CheckNameCollisions ==
    /\ pm = "yarn" /\ rpc = "y_collisions"
    /\ IF NameCollision(git_deps)
       THEN Raise("PackageRejected")
       ELSE rpc' = "y_clone" /\ UNCHANGED rerr
    /\ ri' = 1
    /\ UNCHANGED <<components, project_files, output, warnings, yarn_rc,
                   package_json, yarnrc_file, package_json_file, yarn_lock_file,
                   version, git_deps, clones, installs>>
    /\ UNCHANGED yarnFrame

(* a cloned_sources that remembers nothing *)
ClonedSourcesForgotten(cs) == {}

(* The sources in cloned_sources *)
ClonedSources(cs) == {cs[k] : k \in DOMAIN cs}

(* One iteration of the second loop of _clone_and_resolve_git_deps *)
CloneGitDep ==
    /\ pm = "yarn" /\ rpc = "y_clone"
    /\ IF ri > Len(git_deps)
       THEN /\ rpc' = "y_resolutions"
            /\ UNCHANGED <<ri, rerr, clones>>
       ELSE IF git_deps[ri].source \in ClonedSources(clones)
            THEN /\ ri' = ri + 1
                 /\ UNCHANGED <<rpc, rerr, clones>>
            ELSE \E cloned \in BOOLEAN :
                    IF cloned
                    THEN /\ clones' = Append(clones, git_deps[ri].source)
                         /\ ri' = ri + 1
                         /\ UNCHANGED <<rpc, rerr>>
                    ELSE /\ Raise("FetchError")
                         /\ UNCHANGED <<ri, clones>>
    /\ UNCHANGED <<components, project_files, output, warnings, yarn_rc,
                   package_json, yarnrc_file, package_json_file, yarn_lock_file,
                   version, git_deps, installs>>
    /\ UNCHANGED yarnFrame

(* resolutions that start from an empty dictionary *)
ResolutionsFromEmpty(resolutions, ds, form) ==
    [n \in GitNames |->
        IF \E i \in DOMAIN ds : ds[i].name = n
        THEN <<form, (CHOOSE d \in {ds[i] : i \in DOMAIN ds} : d.name = n).source>>
        ELSE NoResolution]

(* The resolutions after those of the git dependencies are set, each in the *)
(* given form: "abs" for the path of the tarball, "tpl" for its template    *)
Resolutions(resolutions, ds, form) ==
    [n \in GitNames |->
        IF \E i \in DOMAIN ds : ds[i].name = n
        THEN <<form, (CHOOSE d \in {ds[i] : i \in DOMAIN ds} : d.name = n).source>>
        ELSE resolutions[n]]

(* The end of _clone_and_resolve_git_deps: package.json is written with the *)
(* resolutions and its template is the first project file                   *)
WriteResolutions ==
    /\ pm = "yarn" /\ rpc = "y_resolutions"
    /\ package_json' = [package_json EXCEPT
                           !.resolutions = Resolutions(@, git_deps, "abs")]
    /\ package_json_file' = package_json'
    /\ project_files' =
          <<[name |-> "package.json",
             template |-> [package_json EXCEPT
                              !.resolutions = Resolutions(@, git_deps, "tpl")]]>>
    /\ rpc' = "y_set_yarnrc"
    /\ UNCHANGED <<ri, rerr, components, output, warnings, yarn_rc, yarnrc_file,
                   yarn_lock_file, version, git_deps, clones, installs>>
    /\ UNCHANGED yarnFrame

(* settings that leave enableScripts as the project has it *)
HardenedKeepingScripts(rc) ==
    [rc EXCEPT !.hardened = TRUE, !.enableImmutableInstalls = "true"]

(* The assignments of _set_yarnrc_configuration *)
Hardened(rc) ==
    [rc EXCEPT !.hardened = TRUE,
               !.enableImmutableInstalls = "true",
               !.enableScripts = "false"]

(* _set_yarnrc_configuration *)
SetYarnrcConfiguration ==
    /\ pm = "yarn" /\ rpc = "y_set_yarnrc"
    /\ yarn_rc' = Hardened(yarn_rc)
    /\ yarnrc_file' = [exists |-> TRUE, data |-> yarn_rc']
    /\ rpc' = IF git_deps # <<>> THEN "y_immutable_off" ELSE "y_resolve"
    /\ UNCHANGED <<ri, rerr, components, project_files, output, warnings,
                   package_json, package_json_file, yarn_lock_file, version,
                   git_deps, clones, installs>>
    /\ UNCHANGED yarnFrame

(* An assignment that leaves the setting as it is *)
SetImmutableInstallsNot(rc, value) == rc

(* project.yarn_rc["enableImmutableInstalls"] = value *)
SetImmutableInstalls(rc, value) == [rc EXCEPT !.enableImmutableInstalls = value]

(* project.yarn_rc["enableImmutableInstalls"] = False, then write *)
ImmutableInstallsOff ==
    /\ pm = "yarn" /\ rpc = "y_immutable_off"
    /\ yarn_rc' = SetImmutableInstalls(yarn_rc, "false")
    /\ yarnrc_file' = [exists |-> TRUE, data |-> yarn_rc']
    /\ rpc' = "y_install_git"
    /\ UNCHANGED <<ri, rerr, components, project_files, output, warnings,
                   package_json, package_json_file, yarn_lock_file, version,
                   git_deps, clones, installs>>
    /\ UNCHANGED yarnFrame

(* What `yarn install` can leave in yarn.lock: Yarn does not change the *)
(* lockfile of an immutable install                                     *)
LockfilesAfterInstall(rc, lockfile) ==
    IF rc.enableImmutableInstalls = "true" THEN {lockfile}
    ELSE {lockfile, "updated"}

(* _build_lockfile_project_file: the content with the output directory *)
(* replaced by ${output_dir}                                           *)
LockfileTemplate(lockfile) ==
    IF lockfile = "updated" THEN "updated_template" ELSE lockfile

(* try: _fetch_dependencies, finally: enableImmutableInstalls = True and   *)
(* write; then _build_lockfile_project_file, resolve_packages and          *)
(* create_components                                                       *)
FetchDependenciesGit ==
    /\ pm = "yarn" /\ rpc = "y_install_git"
    /\ installs' = Append(installs, yarnrc_file)
    /\ yarn_lock_file' \in LockfilesAfterInstall(yarnrc_file.data, yarn_lock_file)
    /\ yarn_rc' = SetImmutableInstalls(yarn_rc, "true")
    /\ yarnrc_file' = [exists |-> TRUE, data |-> yarn_rc']
    /\ \E result \in {"install_failed", "resolve_failed", "ok"} :
          CASE result = "install_failed" ->
                  /\ Raise("PackageManagerError")
                  /\ UNCHANGED <<components, project_files, output>>
            [] result = "resolve_failed" ->
                  /\ Raise("PackageRejected")
                  /\ project_files' =
                        Append(project_files,
                               [name |-> "yarn.lock",
                                template |-> LockfileTemplate(yarn_lock_file')])
                  /\ UNCHANGED <<components, output>>
            [] OTHER ->
                  /\ project_files' =
                        Append(project_files,
                               [name |-> "yarn.lock",
                                template |-> LockfileTemplate(yarn_lock_file')])
                  /\ components' = <<[pm |-> "yarn", pkg |-> pkg, dep |-> 0,
                                      type |-> "npm", properties |-> {}]>>
                  /\ output' = <<RequestOutput(components', project_files')>>
                  /\ rpc' = "returned"
                  /\ UNCHANGED rerr
    /\ UNCHANGED <<ri, warnings, package_json, package_json_file, version,
                   git_deps, clones>>
    /\ UNCHANGED yarnFrame

(* Without git dependencies: resolve_packages, _fetch_dependencies and *)
(* create_components, no project file                                  *)
FetchDependencies ==
    /\ pm = "yarn" /\ rpc = "y_resolve"
    /\ \E result \in {"resolve_failed", "install_failed", "ok"} :
          CASE result = "resolve_failed" ->
                  /\ Raise("PackageRejected")
                  /\ UNCHANGED <<components, output, installs, yarn_lock_file>>
            [] result = "install_failed" ->
                  /\ installs' = Append(installs, yarnrc_file)
                  /\ yarn_lock_file' \in
                        LockfilesAfterInstall(yarnrc_file.data, yarn_lock_file)
                  /\ Raise("PackageManagerError")
                  /\ UNCHANGED <<components, output>>
            [] OTHER ->
                  /\ installs' = Append(installs, yarnrc_file)
                  /\ yarn_lock_file' \in
                        LockfilesAfterInstall(yarnrc_file.data, yarn_lock_file)
                  /\ components' = <<[pm |-> "yarn", pkg |-> pkg, dep |-> 0,
                                      type |-> "npm", properties |-> {}]>>
                  /\ output' = <<RequestOutput(components', <<>>)>>
                  /\ rpc' = "returned"
                  /\ UNCHANGED rerr
    /\ UNCHANGED <<ri, project_files, warnings, yarn_rc, package_json,
                   yarnrc_file, package_json_file, version, git_deps, clones>>
    /\ UNCHANGED yarnFrame

YarnNext ==
    \/ ConfigureYarnVersion
    \/ VerifyAndParseLockfile
    \/ CheckNameCollisions
    \/ CloneGitDep
    \/ WriteResolutions
    \/ SetYarnrcConfiguration
    \/ ImmutableInstallsOff
    \/ FetchDependenciesGit
    \/ FetchDependencies

----------------------------------------------------------------------------
(* Part 3: the services of hermeto/core: git (scm.py), the error kinds     *)
(* (errors.py) and the configuration (config.py).  SpecCore runs one call  *)
(* of one of them.                                                         *)
(*                                                                         *)
(* A string is a sequence of tokens: the separators ":", "/" and "@" are   *)
(* tokens of their own, a run of other characters is one token.            *)

(* The position of the first occurrence of sub in s, 0 if there is none:   *)
(* str.find, and `sub in s` when it is positive                            *)
Find(s, sub) ==
    LET at == {i \in 1..(Len(s) - Len(sub) + 1) :
                  SubSeq(s, i, i + Len(sub) - 1) = sub}
    IN  IF at = {} THEN 0 ELSE CHOOSE i \in at : \A j \in at : i <= j

(* The position of the last occurrence of the token c in s, 0 if none:     *)
(* str.rpartition                                                          *)
FindLast(s, c) ==
    LET at == {i \in 1..Len(s) : s[i] = c}
    IN  IF at = {} THEN 0 ELSE CHOOSE i \in at : \A j \in at : j <= i

(* s from position i to its end *)
From(s, i) == SubSeq(s, i, Len(s))

(* str.replace(old, new): every occurrence, from the left *)
RECURSIVE StrReplace(_, _, _)
StrReplace(s, old, new) ==
    LET i == Find(s, old)
    IN  IF old = <<>> \/ i = 0
        THEN s
        ELSE SubSeq(s, 1, i - 1) \o new
                 \o StrReplace(From(s, i + Len(old)), old, new)

(* str.removeprefix *)
RemovePrefix(s, prefix) ==
    IF Len(prefix) <= Len(s) /\ SubSeq(s, 1, Len(prefix)) = prefix
    THEN From(s, Len(prefix) + 1)
    ELSE s

(* The number of "/" that s starts with: the /* of a regular expression *)
RECURSIVE LeadingSlashes(_)
LeadingSlashes(s) ==
    IF s # <<>> /\ Head(s) = "/" THEN 1 + LeadingSlashes(Tail(s)) ELSE 0

SchemeSep == <<":", "/", "/">>
SshPrefix == <<"ssh">> \o SchemeSep
HttpsPrefix == <<"https">> \o SchemeSep

(* The URLs of the model: prefix, user information, host, separator, path *)
UrlStrings ==
    {p \o u \o <<"host">> \o s \o q :
        p \in {<<>>, SshPrefix, HttpsPrefix, <<"/">>, <<".", "/">>},
        u \in {<<>>, <<"git", "@">>, <<"git", ":", "pw", "@">>},
        s \in {<<":">>, <<"/">>, <<":", "/">>},
        q \in {<<"repo">>, <<"ns", "/", "repo">>, <<"repo", "@", "v">>}}

(* The tokens that may stand in a URL scheme: letters, digits, "+-." *)
SchemeTokens == {"ssh", "https", "git", "git+", "host", "pw", "ns", "repo", "v", "."}

----------------------------------------------------------------------------
(* yarn/main.py: the clone URL of a git dependency of yarn.lock *)

_build_clone_url(protocol, source) ==
    RemovePrefix(protocol, <<"git+">>) \o <<":">> \o source

(* GitDep.clone_url, for the protocols and sources of Berry git locators *)
YarnCloneUrls ==
    {_build_clone_url(p, s) :
        p \in {<<"https">>, <<"ssh">>, <<"git+", "ssh">>, <<"git+", "https">>,
               <<"git", "@", "host">>},
        s \in {<<"/", "/", "host", "/", "repo">>,
               <<"/", "/", "git", "@", "host", "/", "repo">>,
               <<"ns", "/", "repo">>}}

----------------------------------------------------------------------------
(* scm.py: _clone_git_repo *)

(* list_url: the URL, and the URL with https for ssh if "ssh://" is in it *)
ListUrl(u) ==
    IF Find(u, SshPrefix) > 0
    THEN <<u, StrReplace(u, SshPrefix, HttpsPrefix)>>
    ELSE <<u>>

CloneIdle == url = <<>> /\ list_url = <<>> /\ tried = <<>>

cloneFrame == <<op, url, list_url, repoIdVars, pathVars, errorVars, configVars,
                fetchVars, resolverVars, yarnVars, parserVars>>

CloneInit ==
    /\ op = "clone"
    /\ spc = "loop"
    /\ serr = "none"
    /\ url \in UrlStrings \cup YarnCloneUrls
    /\ list_url = ListUrl(url)
    /\ tried = <<>>

(* One turn of `for url in list_url`: Repo.clone_from and the checkout of  *)
(* the branch fail and the loop goes on, or _reset_git_head follows, which *)
(* raises FetchError or lets the function return                           *)
CloneAttempt ==
    /\ op = "clone" /\ spc = "loop"
    /\ Len(tried) < Len(list_url)
    /\ \E result \in {"clone_failed", "reset_failed", "ok"} :
          /\ tried' = Append(tried, [url |-> list_url[Len(tried) + 1],
                                     result |-> result])
          /\ spc' = CASE result = "clone_failed" -> "loop"
                      [] result = "reset_failed" -> "raised"
                      [] OTHER -> "returned"
          /\ serr' = IF result = "reset_failed" THEN "FetchError" ELSE serr
    /\ UNCHANGED cloneFrame

(* raise FetchError("Failed cloning the Git repository") *)
CloneExhausted ==
    /\ op = "clone" /\ spc = "loop"
    /\ Len(tried) = Len(list_url)
    /\ spc' = "raised"
    /\ serr' = "FetchError"
    /\ UNCHANGED <<tried, cloneFrame>>

----------------------------------------------------------------------------
(* scm.py: get_repo_id and _canonicalize_origin_url *)

(* urllib.parse.urlparse on the URLs of the model: the scheme is what      *)
(* stands before the first ":" if it is made of scheme characters, the     *)
(* netloc what follows "//" up to the next "/"                             *)
urlparse(u) ==
    LET i == Find(u, <<":">>)
        has_scheme == i > 1 /\ \A k \in 1..(i - 1) : u[k] \in SchemeTokens
        rest == IF has_scheme THEN From(u, i + 1) ELSE u
        has_netloc == Len(rest) >= 2 /\ SubSeq(rest, 1, 2) = <<"/", "/">>
        after == IF has_netloc THEN From(rest, 3) ELSE rest
        j == Find(after, <<"/">>)
        netloc == CASE ~has_netloc -> <<>>
                    [] j = 0 -> after
                    [] OTHER -> SubSeq(after, 1, j - 1)
        path == IF has_netloc THEN From(after, Len(netloc) + 1) ELSE rest
        a == FindLast(netloc, "@")
        userinfo == SubSeq(netloc, 1, a - 1)
        c == Find(userinfo, <<":">>)
    IN  [scheme |-> IF has_scheme THEN SubSeq(u, 1, i - 1) ELSE <<>>,
         has_netloc |-> has_netloc,
         netloc |-> netloc,
         path |-> path,
         username |-> CASE a = 0 -> <<"None">>
                        [] c = 0 -> userinfo
                        [] OTHER -> SubSeq(userinfo, 1, c - 1),
         password |-> IF a = 0 \/ c = 0 THEN <<"None">>
                      ELSE From(userinfo, c + 1)]

(* ParseResult.geturl, with the netloc replaced; uses_netloc are the       *)
(* schemes urllib knows to take a netloc                                   *)
geturl(parsed, netloc) ==
    LET uses_netloc == {<<"ssh">>, <<"https">>, <<"git">>, <<"git+", "ssh">>}
        lead == netloc # <<>> \/ (parsed.scheme \in uses_netloc
                                  /\ ~(Len(parsed.path) >= 2
                                       /\ SubSeq(parsed.path, 1, 2) = <<"/", "/">>))
        path == IF lead /\ parsed.path # <<>> /\ Head(parsed.path) # "/"
                THEN <<"/">> \o parsed.path
                ELSE parsed.path
        tail == IF lead THEN <<"/", "/">> \o netloc \o path ELSE path
    IN  IF parsed.scheme # <<>> THEN parsed.scheme \o <<":">> \o tail ELSE tail

(* ^[^/]*: matches: a ":" that no "/" stands before *)
ScpStyle(u) ==
    LET i == Find(u, <<":">>)
        s == Find(u, <<"/">>)
    IN  i > 0 /\ (s = 0 \/ i < s)

(* re.sub(":/*", "/", part, count=1) *)
ColonToSlash(part) ==
    LET i == Find(part, <<":">>)
    IN  IF i = 0 THEN part
        ELSE SubSeq(part, 1, i - 1) \o <<"/">>
                 \o From(part, i + 1 + LeadingSlashes(From(part, i + 1)))

_canonicalize_origin_url(u) ==
    IF Find(u, SchemeSep) > 0
    THEN LET parsed == urlparse(u)
             cleaned_netloc ==
                 StrReplace(parsed.netloc,
                            parsed.username \o <<":">> \o parsed.password \o <<"@">>,
                            <<>>)
         IN  [ok |-> TRUE, url |-> geturl(parsed, cleaned_netloc)]
    ELSE IF ScpStyle(u)
    THEN LET a == Find(u, <<"@">>)
         IN  [ok |-> TRUE,
              url |-> IF a = 0
                      THEN SshPrefix \o ColonToSlash(u)
                      ELSE SshPrefix \o SubSeq(u, 1, a) \o ColonToSlash(From(u, a + 1))]
    ELSE [ok |-> FALSE, url |-> <<>>]

RepoIdIdle == origin = <<>> /\ origin_url = <<>> /\ again = <<>>

repoIdFrame == <<op, origin, cloneVars, pathVars, errorVars, configVars,
                 fetchVars, resolverVars, yarnVars, parserVars>>

RepoIdInit ==
    /\ op = "get_repo_id"
    /\ spc = "start"
    /\ serr = "none"
    /\ origin \in UrlStrings \cup {<<>>}   \* <<>>: no remote "origin"
    /\ origin_url = <<>> /\ again = <<>>

(* get_repo_id, the repository found *)
GetRepoId ==
    /\ op = "get_repo_id" /\ spc = "start"
    /\ IF origin = <<>> \/ ~_canonicalize_origin_url(origin).ok
       THEN /\ spc' = "raised"
            /\ serr' = "UnsupportedFeature"
            /\ UNCHANGED origin_url
       ELSE /\ spc' = "returned"
            /\ origin_url' = _canonicalize_origin_url(origin).url
            /\ UNCHANGED serr
    /\ UNCHANGED <<again, repoIdFrame>>

(* get_repo_id on a repository whose origin is the URL reported before *)
GetRepoIdAgain ==
    /\ op = "get_repo_id" /\ spc = "returned"
    /\ IF ~_canonicalize_origin_url(origin_url).ok
       THEN /\ spc' = "raised"
            /\ serr' = "UnsupportedFeature"
            /\ UNCHANGED again
       ELSE /\ spc' = "returned_again"
            /\ again' = _canonicalize_origin_url(origin_url).url
            /\ UNCHANGED serr
    /\ UNCHANGED <<origin_url, repoIdFrame>>

----------------------------------------------------------------------------
(* scm.py: get_repo_for_path.  A path is the sequence of its parts, an     *)
(* absolute one starts with "/".  A repository is known by its working     *)
(* directory.                                                              *)

DirNames == {"a", "b"}

RECURSIVE PathsOfLength(_)
PathsOfLength(n) ==
    IF n = 0 THEN {<<>>}
    ELSE {Append(p, d) : p \in PathsOfLength(n - 1), d \in DirNames}

RelativePaths == UNION {PathsOfLength(n) : n \in 0..MaxPathLen}

RepoRoot == <<"/", "w">>

is_absolute(p) == p # <<>> /\ Head(p) = "/"

(* Path.is_relative_to(other): other is p or one of its parents *)
is_relative_to(p, other) ==
    Len(other) <= Len(p) /\ SubSeq(p, 1, Len(other)) = other

(* Path.relative_to(other), for a p that is relative to other *)
relative_to(p, other) == From(p, Len(other) + 1)

(* repo_root / target_path *)
JoinPath(p, q) == IF is_absolute(q) THEN q ELSE p \o q

(* The working trees a checkout can hold: a submodule that is not          *)
(* initialized is an empty directory, nothing is below it                  *)
RECURSIVE SetsUpTo(_, _)
SetsUpTo(S, n) ==
    IF n = 0 THEN {{}}
    ELSE LET smaller == SetsUpTo(S, n - 1)
         IN  smaller \cup {s \cup {x} : s \in smaller, x \in S}

SubmoduleTrees ==
    {t \in UNION {[all : {a}, uninitialized : SUBSET a] :
                    a \in SetsUpTo({RepoRoot \o p : p \in RelativePaths \ {<<>>}},
                                   MaxSubmodules)} :
        \A s \in t.all, u \in t.uninitialized :
            s # u => ~is_relative_to(s, u)}

(* repo.submodules: Path(repo.working_dir, submodule.path) of each one *)
Submodules(working_dir) ==
    {s \in submodules.all :
        /\ s # working_dir
        /\ is_relative_to(s, working_dir)
        /\ \A m \in submodules.all :
              (m # working_dir /\ m # s /\ is_relative_to(m, working_dir))
                  => ~is_relative_to(s, m)}

(* No submodule is looked into *)
FindNoSubmodule(working_dir, path) == <<>>

(* The submodule of the repository that holds the target, <<>> for None.   *)
(* No two submodules of one repository hold the same path.                 *)
_find_submodule_containing_path(working_dir, path) ==
    LET holding == {s \in Submodules(working_dir) : is_relative_to(path, s)}
    IN  IF holding = {} THEN <<>> ELSE CHOOSE s \in holding : TRUE

PathIdle ==
    /\ submodules = [all |-> {}, uninitialized |-> {}]
    /\ target = <<>> /\ target_path = <<>>
    /\ current_repo = <<>> /\ relative_path = <<>>

pathFrame == <<op, submodules, target, cloneVars, repoIdVars, errorVars,
               configVars, fetchVars, resolverVars, yarnVars, parserVars>>

RepoForPathInit ==
    /\ op = "get_repo_for_path"
    /\ spc = "start"
    /\ serr = "none"
    /\ submodules \in SubmoduleTrees
    /\ target \in RelativePaths
                  \cup {RepoRoot \o p : p \in RelativePaths}
                  \cup {<<"/", "elsewhere">>}
    /\ target_path = <<>>
    /\ current_repo = <<>>
    /\ relative_path = <<>>

(* target_path made absolute, current_repo = Repo(repo_root) *)
RepoForPathStart ==
    /\ op = "get_repo_for_path" /\ spc = "start"
    /\ target_path' = IF is_absolute(target) THEN target
                      ELSE JoinPath(RepoRoot, target)
    /\ current_repo' = RepoRoot
    /\ spc' = "while"
    /\ UNCHANGED <<serr, relative_path, pathFrame>>

(* One turn of the while loop: _get_submodule_repo of the submodule found *)
RepoForPathDescend ==
    /\ op = "get_repo_for_path" /\ spc = "while"
    /\ LET submodule == _find_submodule_containing_path(current_repo, target_path)
       IN  /\ submodule # <<>>
           /\ IF submodule \in submodules.uninitialized
              THEN /\ spc' = "raised"
                   /\ serr' = "NotAGitRepo"
                   /\ UNCHANGED current_repo
              ELSE /\ current_repo' = submodule
                   /\ UNCHANGED <<spc, serr>>
    /\ UNCHANGED <<target_path, relative_path, pathFrame>>

(* The loop left: target_path.relative_to(current_repo.working_dir) *)
RepoForPathReturn ==
    /\ op = "get_repo_for_path" /\ spc = "while"
    /\ _find_submodule_containing_path(current_repo, target_path) = <<>>
    /\ IF is_relative_to(target_path, current_repo)
       THEN /\ relative_path' = relative_to(target_path, current_repo)
            /\ spc' = "returned"
            /\ UNCHANGED serr
       ELSE /\ spc' = "raised"
            /\ serr' = "ValueError"
            /\ UNCHANGED relative_path
    /\ UNCHANGED <<target_path, current_repo, pathFrame>>

----------------------------------------------------------------------------
(* errors.py: the exit codes of the error kinds *)

(* _exit_codes, in the order of the dictionary *)
_exit_codes ==
    << <<"BaseError", 1>>, <<"UsageError", 2>>, <<"PathOutsideRoot", 3>>,
       <<"InvalidInput", 4>>, <<"PackageRejected", 5>>, <<"NotAGitRepo", 6>>,
       <<"UnexpectedFormat", 7>>, <<"UnsupportedFeature", 8>>,
       <<"ExecutableNotFound", 9>>, <<"ChecksumVerificationFailed", 10>>,
       <<"InvalidChecksum", 11>>, <<"MissingChecksum", 12>>,
       <<"LockfileNotFound", 13>>, <<"InvalidLockfileFormat", 14>>,
       <<"FetchError", 15>>, <<"PackageManagerError", 16>>, <<"GitError", 17>>,
       <<"GitRemoteNotFoundError", 18>>, <<"GitInvalidRevisionError", 19>>,
       <<"PackageWithCorruptLockfileRejected", 20>>,
       <<"UnsatisfiableArchitectureFilter", 21>>, <<"NotV1Lockfile", 22>> >>

ErrorKinds == {_exit_codes[i][1] : i \in DOMAIN _exit_codes}

(* _exit_codes[class_name] *)
ExitCodeOf(class_name) ==
    LET i == CHOOSE i \in DOMAIN _exit_codes : _exit_codes[i][1] = class_name
    IN  _exit_codes[i][2]

(* The first name of the table, whatever the code *)
FirstErrorName(code) == _exit_codes[1][1]

(* next((k for k, v in _exit_codes.items() if v == code), None) *)
get_error_name_from_code(code) ==
    LET at == {i \in DOMAIN _exit_codes : _exit_codes[i][2] = code}
    IN  IF at = {} THEN "None"
        ELSE _exit_codes[CHOOSE i \in at : \A j \in at : i <= j][1]

(* The class statements of errors.py: each class and its base *)
BaseOf ==
    [c \in {"UsageError", "PathOutsideRoot", "InvalidInput", "PackageRejected",
            "NotAGitRepo", "UnexpectedFormat", "UnsupportedFeature",
            "ExecutableNotFound", "ChecksumVerificationFailed", "InvalidChecksum",
            "MissingChecksum", "LockfileNotFound", "InvalidLockfileFormat",
            "FetchError", "PackageManagerError", "GitError",
            "GitRemoteNotFoundError", "GitInvalidRevisionError"} |->
        CASE c \in {"UsageError", "FetchError", "PackageManagerError", "GitError"}
                 -> "BaseError"
          [] c \in {"PathOutsideRoot", "InvalidInput", "PackageRejected",
                    "UnexpectedFormat", "UnsupportedFeature", "ExecutableNotFound"}
                 -> "UsageError"
          [] c \in {"NotAGitRepo", "ChecksumVerificationFailed", "InvalidChecksum",
                    "LockfileNotFound", "InvalidLockfileFormat"}
                 -> "PackageRejected"
          [] c = "MissingChecksum" -> "InvalidChecksum"
          [] OTHER -> "GitError"]

(* The classes that modules other than errors.py define, on a base of      *)
(* their choice: the three the table names, and Unlisted for one that the  *)
(* table does not name                                                     *)
ClassesDefinedElsewhere ==
    {"PackageWithCorruptLockfileRejected", "UnsatisfiableArchitectureFilter",
     "NotV1Lockfile", "Unlisted"}

ErrorsIdle == classes = {} /\ looked = <<>>

errorFrame == <<op, cloneVars, repoIdVars, pathVars, configVars,
                fetchVars, resolverVars, yarnVars, parserVars>>

(* class BaseError(Exception): exit_code = 1 *)
ErrorsInit ==
    /\ op = "errors"
    /\ spc = "import"
    /\ serr = "none"
    /\ classes = {[name |-> "BaseError", exit_code |-> 1]}
    /\ looked = <<>>

(* A class statement: BaseError.__init_subclass__ *)
InitSubclass ==
    /\ op = "errors" /\ spc = "import"
    /\ Cardinality(classes) <= MaxClasses
    /\ \E class_name \in DOMAIN BaseOf \cup ClassesDefinedElsewhere :
          /\ \A c \in classes : c.name # class_name
          /\ class_name \in DOMAIN BaseOf =>
                \E c \in classes : c.name = BaseOf[class_name]
          /\ IF class_name \notin ErrorKinds
             THEN /\ spc' = "raised"
                  /\ serr' = "ValueError"
                  /\ UNCHANGED classes
             ELSE /\ classes' = classes \cup {[name |-> class_name,
                                                exit_code |-> ExitCodeOf(class_name)]}
                  /\ UNCHANGED <<spc, serr>>
    /\ UNCHANGED <<looked, errorFrame>>

(* get_error_name_from_code(code) *)
GetErrorNameFromCode ==
    /\ op = "errors" /\ spc = "import"
    /\ \E code \in 0..(Len(_exit_codes) + 1) :
          looked' = << [code |-> code, name |-> get_error_name_from_code(code)] >>
    /\ spc' = "returned"
    /\ UNCHANGED <<serr, classes, errorFrame>>

----------------------------------------------------------------------------
(* config.py: the settings sources of Config.  One key is followed; a      *)
(* source either leaves it out (0) or gives it a value.                    *)

Unset == 0
BuiltInDefault == MaxConfigValue + 1

(* The places a value can come from: the YAML file named on the command    *)
(* line, config.yaml of the current directory, config.yaml under           *)
(* ~/.config, and the environment variable of the key                      *)
ConfigPlaces == {"cli_yaml", "cwd_yaml", "home_yaml", "env"}

(* CONFIG_FILE_PATHS *)
CONFIG_FILE_PATHS == <<"home_yaml", "cwd_yaml">>

(* YamlConfigSettingsSource over a list of files: each file read in turn   *)
(* updates what the files before it gave                                   *)
RECURSIVE YamlConfigSettingsSource(_, _)
YamlConfigSettingsSource(yaml_file, given) ==
    IF yaml_file = <<>> THEN Unset
    ELSE LET last == given[yaml_file[Len(yaml_file)]]
         IN  IF last # Unset THEN last
             ELSE YamlConfigSettingsSource(SubSeq(yaml_file, 1, Len(yaml_file) - 1),
                                           given)

(* settings_customise_sources: init_settings holds nothing, as no caller   *)
(* passes a keyword to Config(); then env_settings, the YAML file of       *)
(* model_config, and CONFIG_FILE_PATHS                                     *)
settings_customise_sources(given, yaml_file) ==
    << Unset,
       given["env"],
       YamlConfigSettingsSource(yaml_file, given),
       YamlConfigSettingsSource(CONFIG_FILE_PATHS, given) >>

(* BaseSettings: the value of the first source that has the key, else the  *)
(* default of the field                                                    *)
RECURSIVE FirstSet(_)
FirstSet(values) ==
    IF values = <<>> THEN BuiltInDefault
    ELSE IF Head(values) # Unset THEN Head(values)
    ELSE FirstSet(Tail(values))

ConfigIdle ==
    /\ places = [p \in ConfigPlaces |-> Unset]
    /\ cli_config = FALSE
    /\ config = <<>>

configFrame == <<op, places, cli_config, cloneVars, repoIdVars, pathVars,
                 errorVars, fetchVars, resolverVars, yarnVars, parserVars>>

(* The process starts: config = None.  The file of the command line is     *)
(* there only when the command line names it.                              *)
ConfigInit ==
    /\ op = "config"
    /\ spc = "start"
    /\ serr = "none"
    /\ places \in [ConfigPlaces -> {Unset} \cup (1..MaxConfigValue)]
    /\ cli_config \in BOOLEAN
    /\ (~cli_config => places["cli_yaml"] = Unset)
    /\ config = <<>>

(* set_config(path): config = CLIConfig(), whose yaml_file is the path *)
SetConfig ==
    /\ op = "config" /\ spc = "start"
    /\ cli_config
    /\ config' = << FirstSet(settings_customise_sources(places, <<"cli_yaml">>)) >>
    /\ spc' = "set"
    /\ UNCHANGED <<serr, configFrame>>

(* get_config(): Config() unless the singleton is there *)
GetConfig ==
    /\ op = "config" /\ spc \in {"start", "set"}
    /\ spc = "start" => ~cli_config
    /\ config' = IF config = <<>>
                 THEN << FirstSet(settings_customise_sources(places, <<>>)) >>
                 ELSE config
    /\ spc' = "returned"
    /\ UNCHANGED <<serr, configFrame>>

----------------------------------------------------------------------------
(* Part 4: the parsers, filters and caches of the package managers, each   *)
(* called on one input.  SpecParsers runs one of them.                     *)

(* Bound of the Maven lockfile: the nodes of its dependency tree *)
MaxNodes == 4

(* lockfile_data.get("dependencies", []): every list of dependency dicts   *)
(* that has n nodes in all, a dict being its artifactId and its "children" *)
RECURSIVE DependencyTrees(_)
DependencyTrees(n) ==
    IF n = 0
    THEN {<<>>}
    ELSE UNION {{<<[artifactId |-> a, children |-> c]>> \o r :
                    a \in {"a", "b"},
                    c \in DependencyTrees(k - 1),
                    r \in DependencyTrees(n - k)} : k \in 1..n}

(* A parse that keeps the top level of the tree only *)
ParseTopLevel(dep_list) == dep_list

(* parse_dependency_tree(dep_list): what it appends to `dependencies`, the *)
(* MavenDependency of a dict being the dict                                *)
RECURSIVE parse_dependency_tree(_)
parse_dependency_tree(dep_list) ==
    IF dep_list = <<>>
    THEN <<>>
    ELSE LET dep == Head(dep_list)
         IN  <<dep>>
             \o (IF dep.children # <<>>
                 THEN parse_dependency_tree(dep.children)
                 ELSE <<>>)
             \o parse_dependency_tree(Tail(dep_list))

(* MavenLockfile._parse_dependencies *)
_parse_dependencies(data) == parse_dependency_tree(data)

mavenLockfileFrame == <<fn, lockfile_data, gemsVars, sbomVars, metayarnVars,
                       hfCacheVars, fetchVars, resolverVars,
                       yarnVars, coreVars>>

MavenLockfileIdle ==
    /\ lockfile_data = <<>>
    /\ dependencies = <<>>

(* lockfile.json as it is on disk when MavenLockfile.from_file is called *)
MavenLockfileInit ==
    /\ fn = "maven_lockfile" /\ fpc = "start"
    /\ lockfile_data \in UNION {DependencyTrees(n) : n \in 0..MaxNodes}
    /\ dependencies = <<>>

(* MavenLockfile.from_file: PackageRejected if the file is missing or is    *)
(* not JSON, else the constructor, which parses the dependencies           *)
MavenLockfileFromFile ==
    /\ fn = "maven_lockfile" /\ fpc = "start"
    /\ \E file_read \in {"missing", "invalid_json", "ok"} :
          IF file_read = "ok"
          THEN /\ dependencies' = _parse_dependencies(lockfile_data)
               /\ fpc' = "returned"
          ELSE /\ fpc' = "raised"
               /\ UNCHANGED dependencies
    /\ UNCHANGED mavenLockfileFrame

----------------------------------------------------------------------------
(* Bundler: GemsFilter of bundler/parser.py *)

(* Bound of the Bundler filter: the gems of the list it is applied to *)
MaxGems == 2

GemNames == {"rails", "nokogiri"}

(* gem["platforms"] as `bundle` reports it: a list without repetition *)
PlatformLists ==
    LET P == {"ruby", "x86_64-linux", "arm64-darwin"}
    IN  {<<p>> : p \in P} \cup {l \in P \X P : l[1] # l[2]}

(* A field of GemsFilter after __init__: <<>> for None (":all:"), else    *)
(* <<the set of the names listed>>                                         *)
FilterSpecs(S) == {<<>>} \cup {<<T>> : T \in (SUBSET S) \ {{}}}

(* list(self.platform): the elements of the set, in any order *)
ListsOfSet(S) ==
    {l \in [1..Cardinality(S) -> S] : \A i, j \in DOMAIN l : l[i] = l[j] => i = j}

(* list.remove(x): the list without the first x *)
RECURSIVE ListRemove(_, _)
ListRemove(l, x) ==
    IF l = <<>> THEN <<>>
    ELSE IF Head(l) = x THEN Tail(l)
    ELSE <<Head(l)>> \o ListRemove(Tail(l), x)

(* A filter that never prefers the binary platforms *)
PreferNothing(platforms) == platforms

(* GemsFilter._prefer_binary: gem["platforms"] as it leaves it *)
_prefer_binary(platforms) ==
    IF (\E i \in DOMAIN platforms : platforms[i] = "ruby") /\ Len(platforms) > 1
    THEN ListRemove(platforms, "ruby")
    ELSE platforms

gemsFrame == <<fn, gems_filter, gems_arg, mavenLockfileVars, sbomVars,
               metayarnVars, hfCacheVars, fetchVars,
               resolverVars, yarnVars, coreVars>>

GemsFilterIdle ==
    /\ gems_filter = [packages |-> <<>>, platform |-> <<>>]
    /\ gems_arg = <<>>
    /\ gems = <<>>
    /\ gi = 1

(* GemsFilter(filters) has been built and apply_platform_filters(gems) is  *)
(* called                                                                  *)
GemsFilterInit ==
    /\ fn = "gems_filter" /\ fpc = "loop"
    /\ gems_filter \in [packages : FilterSpecs(GemNames),
                        platform : FilterSpecs({"x86_64-linux", "arm64-darwin"})]
    /\ gems_arg \in UNION {[1..n -> [name : GemNames, platforms : PlatformLists]] :
                              n \in 0..MaxGems}
    /\ gems = gems_arg
    /\ gi = 1

(* One turn of `for gem in gems` in apply_platform_filters *)
ApplyPlatformFilters ==
    /\ fn = "gems_filter" /\ fpc = "loop"
    /\ gi <= Len(gems)
    /\ LET gem == gems[gi]
           packages == gems_filter.packages
           platform == gems_filter.platform
       IN  \E listed \in (IF platform = <<>> THEN {<<>>} ELSE ListsOfSet(platform[1])) :
              gems' = [gems EXCEPT ![gi].platforms =
                  CASE packages = <<>> /\ platform = <<>> ->
                          _prefer_binary(gem.platforms)
                    [] packages = <<>> /\ platform # <<>> ->
                          listed
                    [] packages # <<>> /\ platform = <<>> ->
                          IF gem.name \in packages[1]
                          THEN _prefer_binary(gem.platforms)
                          ELSE <<"ruby">>
                    [] OTHER ->
                          IF gem.name \in packages[1]
                          THEN listed
                          ELSE <<"ruby">>]
    /\ gi' = gi + 1
    /\ UNCHANGED fpc
    /\ UNCHANGED gemsFrame

(* The loop of apply_platform_filters is over *)
ApplyPlatformFiltersReturn ==
    /\ fn = "gems_filter" /\ fpc = "loop"
    /\ gi > Len(gems)
    /\ fpc' = "returned"
    /\ UNCHANGED <<gems, gi>>
    /\ UNCHANGED gemsFrame

----------------------------------------------------------------------------
(* DVC: generate_sbom_components of dvc/parser.py on one lockfile *)

(* Bound of the DVC lockfile: the dependencies of its stages *)
MaxDvcDeps == 3

sbomFrame == <<fn, dvc_lockfile, mavenLockfileVars, gemsVars, metayarnVars,
               hfCacheVars,
               fetchVars,
               resolverVars, yarnVars, coreVars>>

SbomIdle ==
    /\ dvc_lockfile = <<>>
    /\ sbom = <<>>

(* The lockfile that load_dvc_lockfile returned: the dependencies of its   *)
(* stages, in the order of the file                                        *)
SbomInit ==
    /\ fn = "dvc_sbom" /\ fpc = "start"
    /\ dvc_lockfile \in UNION {[1..n -> DvcDeps] : n \in 0..MaxDvcDeps}
    /\ sbom = <<>>

(* generate_sbom_components(lockfile) *)
GenerateSbomComponents ==
    /\ fn = "dvc_sbom" /\ fpc = "start"
    /\ sbom' = generate_sbom_components(1, dvc_lockfile)
    /\ fpc' = "returned"
    /\ UNCHANGED sbomFrame

----------------------------------------------------------------------------
(* Yarn: fetch_yarn_source of metayarn.py, which sends each package to the *)
(* Yarn Classic resolver and then, maybe, to the Yarn Berry resolver       *)

(* Bound of the Yarn request: its yarn packages *)
MaxYarnPkgs == 2

(* What the two resolvers do with a package: Classic returns or raises,    *)
(* Berry returns or raises                                                 *)
YarnPackages ==
    [classic : {"ok", "MissingLockfile", "NotV1Lockfile", "PackageRejected"},
     berry : {"ok", "PackageRejected"}]

(* The fields of Config *)
ConfigFields ==
    {"goproxy_url", "default_environment_variables", "gomod_download_max_tries",
     "gomod_strict_vendor", "subprocess_timeout", "requests_timeout",
     "concurrency_limit", "allow_yarnberry_processing",
     "ignore_pip_dependencies_crates"}

metayarnFrame == <<fn, yarn_packages, allow_yarnberry_processing,
                   mavenLockfileVars, gemsVars, sbomVars, hfCacheVars,
                   fetchVars,
                   resolverVars, yarnVars, coreVars>>

MetaYarnIdle ==
    /\ yarn_packages = <<>>
    /\ allow_yarnberry_processing = TRUE
    /\ yi = 1
    /\ calls = <<>>
    /\ fetched_packages = <<>>
    /\ merr = "none"

(* fetch_yarn_source(request) is called: fetched_packages = [] *)
MetaYarnInit ==
    /\ fn = "metayarn" /\ fpc = "loop"
    /\ yarn_packages \in UNION {[1..n -> YarnPackages] : n \in 0..MaxYarnPkgs}
    /\ allow_yarnberry_processing \in BOOLEAN
    /\ yi = 1
    /\ calls = <<>>
    /\ fetched_packages = <<>>
    /\ merr = "none"

(* for package in request.yarn_packages: the try block, which calls        *)
(* fetch_yarn_classic_source on the request of that package alone          *)
MetaYarnClassic ==
    /\ fn = "metayarn" /\ fpc = "loop"
    /\ yi <= Len(yarn_packages)
    /\ calls' = Append(calls, <<yi, "classic">>)
    /\ CASE yarn_packages[yi].classic = "ok" ->
              /\ fetched_packages' = Append(fetched_packages, <<yi, "classic">>)
              /\ yi' = yi + 1
              /\ UNCHANGED <<fpc, merr>>
         [] yarn_packages[yi].classic \in {"MissingLockfile", "NotV1Lockfile"} ->
              /\ fpc' = "except"
              /\ UNCHANGED <<yi, fetched_packages, merr>>
         [] OTHER ->
              /\ fpc' = "raised"
              /\ merr' = yarn_packages[yi].classic
              /\ UNCHANGED <<yi, fetched_packages>>
    /\ UNCHANGED metayarnFrame

(* except (MissingLockfile, NotV1Lockfile) as e: the handler reads          *)
(* get_config().yarn.enabled, and Config has no attribute `yarn`           *)
MetaYarnExcept ==
    /\ fn = "metayarn" /\ fpc = "except"
    /\ IF "yarn" \notin ConfigFields
       THEN /\ fpc' = "raised"
            /\ merr' = "AttributeError"
            /\ UNCHANGED <<yi, calls, fetched_packages>>
       ELSE IF allow_yarnberry_processing
       THEN /\ calls' = Append(calls, <<yi, "berry">>)
            /\ IF yarn_packages[yi].berry = "ok"
               THEN /\ fetched_packages' = Append(fetched_packages, <<yi, "berry">>)
                    /\ yi' = yi + 1
                    /\ fpc' = "loop"
                    /\ UNCHANGED merr
               ELSE /\ fpc' = "raised"
                    /\ merr' = yarn_packages[yi].berry
                    /\ UNCHANGED <<yi, fetched_packages>>
       ELSE /\ fpc' = "raised"
            /\ merr' = yarn_packages[yi].classic
            /\ UNCHANGED <<yi, calls, fetched_packages>>
    /\ UNCHANGED metayarnFrame

(* return sum(fetched_packages, RequestOutput.empty()) *)
MetaYarnReturn ==
    /\ fn = "metayarn" /\ fpc = "loop"
    /\ yi > Len(yarn_packages)
    /\ fpc' = "returned"
    /\ UNCHANGED <<yi, calls, fetched_packages, merr>>
    /\ UNCHANGED metayarnFrame

----------------------------------------------------------------------------
(* Hugging Face: HFCacheManager.add_file_to_cache of huggingface/cache.py  *)
(* on one repository cache directory.  A path is the sequence of its names *)
(* below the repository cache directory.                                   *)

(* _compute_blob_hash(local_file): the SHA-256 of the content, in hex *)
_compute_blob_hash(content) ==
    CASE content = "weights" -> "sha256_of_weights"
      [] content = "json" -> "sha256_of_json"

(* _get_blob_path *)
_get_blob_path(blob_hash) == <<"blobs", blob_hash>>

(* _get_snapshot_path *)
_get_snapshot_path(revision, file_path) == <<"snapshots", revision>> \o file_path

(* Where a relative link that lies in directory dir points: each ".." of   *)
(* the link leaves a directory, each other name enters one                 *)
RECURSIVE Resolve(_, _)
Resolve(dir, link) ==
    IF link = <<>> THEN dir
    ELSE IF Head(link) = ".." /\ dir # <<>> /\ dir[Len(dir)] # ".."
    THEN Resolve(SubSeq(dir, 1, Len(dir) - 1), Tail(link))
    ELSE Resolve(Append(dir, Head(link)), Tail(link))

hfCacheFrame == <<fn, fpc, mavenLockfileVars, gemsVars, sbomVars, metayarnVars,
                  fetchVars, resolverVars, yarnVars, coreVars>>

HfCacheIdle ==
    /\ blobs = {}
    /\ snapshots = {}
    /\ added = {}

(* The repository cache directory before the first file is added *)
HfCacheInit ==
    /\ fn = "hf_cache" /\ fpc = "ready"
    /\ blobs = {}
    /\ snapshots = {}
    /\ added = {}

(* add_file_to_cache(repo_cache_dir, revision, file_path, local_file, ...): *)
(* the blob is copied unless it is there, the entry of the snapshot is     *)
(* unlinked if it is there, and the link ../../blobs/<hash> is made        *)
AddFileToCache ==
    /\ fn = "hf_cache" /\ fpc = "ready"
    /\ \E revision \in {"rev1", "rev2"},
          file_path \in {<<"config.json">>, <<"onnx", "model.bin">>},
          local_file \in {"weights", "json"} :
          LET blob_hash == _compute_blob_hash(local_file)
              snapshot_file == _get_snapshot_path(revision, file_path)
              rel_path == <<"..", "..", "blobs", blob_hash>>
          IN  /\ blobs' = blobs \cup {_get_blob_path(blob_hash)}
              /\ snapshots' = {s \in snapshots : s.path # snapshot_file}
                                \cup {[path |-> snapshot_file, link |-> rel_path]}
              /\ added' = {a \in added : a.path # snapshot_file}
                            \cup {[path |-> snapshot_file, local_file |-> local_file]}
    /\ UNCHANGED hfCacheFrame

----------------------------------------------------------------------------
(* No parser, filter or cache is called *)
ParserIdle ==
    /\ fn = "idle" /\ fpc = "idle"
    /\ MavenLockfileIdle /\ GemsFilterIdle /\ SbomIdle /\ MetaYarnIdle
    /\ HfCacheIdle

----------------------------------------------------------------------------
(* One call of one service *)
CoreIdle ==
    /\ op = "idle" /\ spc = "idle" /\ serr = "none"
    /\ CloneIdle /\ RepoIdIdle /\ PathIdle /\ ErrorsIdle /\ ConfigIdle

InitCore ==
    /\ FetchIdle /\ ResolverIdle /\ YarnIdle /\ ParserIdle
    /\ \/ CloneInit /\ RepoIdIdle /\ PathIdle /\ ErrorsIdle /\ ConfigIdle
       \/ RepoIdInit /\ CloneIdle /\ PathIdle /\ ErrorsIdle /\ ConfigIdle
       \/ RepoForPathInit /\ CloneIdle /\ RepoIdIdle /\ ErrorsIdle /\ ConfigIdle
       \/ ErrorsInit /\ CloneIdle /\ RepoIdIdle /\ PathIdle /\ ConfigIdle
       \/ ConfigInit /\ CloneIdle /\ RepoIdIdle /\ PathIdle /\ ErrorsIdle

NextCore ==
    \/ CloneAttempt
    \/ CloneExhausted
    \/ GetRepoId
    \/ GetRepoIdAgain
    \/ RepoForPathStart
    \/ RepoForPathDescend
    \/ RepoForPathReturn
    \/ InitSubclass
    \/ GetErrorNameFromCode
    \/ SetConfig
    \/ GetConfig

(* The steps of get_repo_for_path *)
RepoForPathNext ==
    \/ RepoForPathStart
    \/ RepoForPathDescend
    \/ RepoForPathReturn

(* A call of get_repo_for_path is not left half-way: nothing in it waits   *)
(* for anything                                                            *)
SpecCore ==
    /\ InitCore
    /\ [][NextCore]_vars
    /\ WF_<<spc, current_repo>>(RepoForPathNext)

----------------------------------------------------------------------------
(* One request, resolved by the resolver of its package manager *)
InitResolvers ==
    /\ FetchIdle /\ CoreIdle /\ ParserIdle
    /\ \/ MavenInit /\ YarnIdle
       \/ DvcInit /\ YarnIdle
       \/ HfInit /\ YarnIdle
       \/ YarnInit

NextResolvers ==
    \/ MavenNext
    \/ DvcNext
    \/ HfNext
    \/ YarnNext

SpecResolvers == InitResolvers /\ [][NextResolvers]_vars

(* One call of one parser, filter or cache *)
InitParsers ==
    /\ FetchIdle /\ ResolverIdle /\ YarnIdle /\ CoreIdle
    /\ \/ MavenLockfileInit /\ GemsFilterIdle /\ SbomIdle /\ MetaYarnIdle /\ HfCacheIdle
       \/ GemsFilterInit /\ MavenLockfileIdle /\ SbomIdle /\ MetaYarnIdle /\ HfCacheIdle
       \/ SbomInit /\ MavenLockfileIdle /\ GemsFilterIdle /\ MetaYarnIdle /\ HfCacheIdle
       \/ MetaYarnInit /\ MavenLockfileIdle /\ GemsFilterIdle /\ SbomIdle /\ HfCacheIdle
       \/ HfCacheInit /\ MavenLockfileIdle /\ GemsFilterIdle /\ SbomIdle /\ MetaYarnIdle

NextParsers ==
    \/ MavenLockfileFromFile
    \/ ApplyPlatformFilters
    \/ ApplyPlatformFiltersReturn
    \/ GenerateSbomComponents
    \/ MetaYarnClassic
    \/ MetaYarnExcept
    \/ MetaYarnReturn
    \/ AddFileToCache

SpecParsers == InitParsers /\ [][NextParsers]_vars

Init == FetchInit /\ ResolverIdle /\ YarnIdle /\ CoreIdle /\ ParserIdle
Next == FetchNext
Spec == Init /\ [][Next]_vars

----------------------------------------------------------------------------
(* Properties of the fetcher *)

\* C1: when a download task has failed with FetchError and async_download_files
\* raises it, no other task of the batch is still in flight and the retry
\* client is closed, whether the failure was seen in the loop or in the final
\* gather.
C1_FailureCancelsSiblings ==
    pc = "raised" => (InFlight = {} /\ client_closed)

\* C2: the number of download tasks started and not yet finished never
\* exceeds concurrency_limit.
C2_AtMostLimitInFlight ==
    Cardinality(InFlight) <= concurrency_limit

C2_Witness ==
    /\ concurrency_limit >= 2
    /\ Cardinality(InFlight) = concurrency_limit
    /\ pc = "wait"
    /\ idx <= NumUrls

\* C3: once async_download_files is over, a URL whose download succeeded has
\* its file at the destination and a URL whose download failed has none.
C3_OneFileIffSuccess ==
    pc \in {"returned", "raised"} =>
        \A u \in Urls :
            /\ status[u] = "done" => file[u]
            /\ status[u] = "failed" => ~file[u]

\* C6: every download, of either scheme, is attempted at most RetryTotal
\* times, gives up on a 5xx response or a transient error only when no
\* attempt remains, and fails at once on a 4xx response.
C6_RetryPolicy ==
    \A u \in Urls :
        /\ attempts[u] <= RetryTotal
        /\ (status[u] = "failed" /\ cause[u] \in {"5xx", "transient"})
               => attempts[u] = RetryTotal
        /\ cause[u] = "4xx" => status[u] = "failed"

\* C7: once a download has failed with an HTTP 4xx no download of another URL
\* is started, and no download completes after async_download_files has raised.
C7_NoStartAfter4xx ==
    [][ /\ (\E u \in Urls : status[u] = "failed" /\ cause[u] = "4xx") =>
              \A v \in Urls : status[v] = "none" => status'[v] = "none"
        /\ pc \in {"raised", "run_raised"} =>
              \A v \in Urls : status'[v] = "done" => status[v] = "done" ]_vars

\* C8: with concurrency_limit = 1 a download is started only after every
\* earlier one has finished, every URL is downloaded exactly once, and when
\* no download fails async_download_files returns normally with every file
\* written.
C8_SerialWithLimitOne ==
    concurrency_limit = 1 =>
        /\ \A u \in Urls : status[u] # "none" =>
               \A v \in Urls : v < u => status[v] \in Terminal
        /\ \A u \in Urls : nstarted[u] <= 1
        /\ pc = "returned" =>
               \A u \in Urls : status[u] = "done" /\ nstarted[u] = 1 /\ file[u]
        /\ (\A u \in Urls : status[u] # "failed") =>
               /\ pc \notin {"except_close", "raised", "run_raised"}
               /\ pc # "run_returned" => ENABLED Next

C8_Witness ==
    /\ concurrency_limit = 1
    /\ pc = "returned"
    /\ \A u \in Urls : status[u] = "done" /\ file[u]

----------------------------------------------------------------------------
(* Properties of the resolvers *)

C5_ChecksumsVerified ==
    (pm = "maven" /\ rpc = "mvn_finish") =>
        \A i \in DOMAIN deps :
            /\ (deps[i].checksum /\ deps[i].checksum_algorithm # "none")
                   => files[i].artifact_ok
            /\ deps[i].checksum_algorithm # "none" => files[i].pom_ok

\* C9: a dependency that has to carry a checksum has none.  In strict mode
\* the resolver is then over with MissingChecksum, or with the rejection of
\* an unsupported algorithm, and nothing of that package was fetched.  In
\* permissive mode, when the resolver returns, a warning was logged and the
\* component of the dependency has the missing_hash_in_file property.
C9_MissingChecksumHandling ==
    (pm \in {"maven", "dvc"} /\ no_checksum # {}) =>
        /\ (mode = "strict" /\ rpc \notin {"mvn_plan", "dvc_validate"}) =>
              /\ rpc = "raised"
              /\ \/ rerr = "MissingChecksum"
                 \/ /\ rerr = "PackageRejected"
                    /\ pm = "maven"
                    /\ \E i \in DOMAIN deps :
                          /\ deps[i].checksum_algorithm # "none"
                          /\ ConvertAlgorithm(deps[i].checksum_algorithm)
                                 = "PackageRejected"
              /\ \A m \in no_checksum : \A k \in DOMAIN fetch_log :
                    fetch_log[k][1] # m[1]
        /\ (mode = "permissive" /\ output # <<>>) =>
              /\ "missing_checksum" \in warnings
              /\ \A m \in no_checksum :
                    \E k \in DOMAIN components :
                        /\ components[k].pkg = m[1]
                        /\ components[k].dep = m[2]
                              \/ components[k].type = "huggingface"
                        /\ "missing_hash_in_file" \in components[k].properties

C11_HardenedAtEveryInstall ==
    \A k \in DOMAIN installs :
        /\ installs[k].exists
        /\ installs[k].data.hardened
        /\ installs[k].data.enableImmutableInstalls = "true"
        /\ installs[k].data.enableScripts = "false"

\* C11 (amended): the resolver runs at most one yarn install, and at that
\* moment the .yarnrc.yml on disk has the settings written by
\* _set_yarnrc_configuration with enableScripts = false;
\* enableImmutableInstalls is true for a project without git dependencies
\* and false for a project with git dependencies.
C11_HardenedInstallImmutableUnlessGit ==
    /\ Len(installs) <= 1
    /\ \A k \in DOMAIN installs :
          /\ installs[k].exists
          /\ installs[k].data.hardened
          /\ installs[k].data.enableScripts = "false"
          /\ installs[k].data.enableImmutableInstalls =
                IF git_deps = <<>> THEN "true" ELSE "false"

C11_Witness ==
    /\ pm = "yarn" /\ rpc = "returned"
    /\ git_deps # <<>>
    /\ Len(installs) = 1
    /\ installs[1].data.enableImmutableInstalls = "false"
    /\ yarn_orig.yarnrc.data.enableScripts = "true"

\* C12: clone_repo_pack_archive is never called twice for the same
\* (clone_url, ref); once the clone loop of _clone_and_resolve_git_deps is
\* over it has been called for exactly the sources of the git dependencies;
\* and once the function has returned, the resolutions entry written to
\* package.json for every git dependency name is the tarball of its source.
C12_OneClonePerSource ==
    pm = "yarn" =>
        /\ \A j, k \in DOMAIN clones : j # k => clones[j] # clones[k]
        /\ {clones[k] : k \in DOMAIN clones}
               \subseteq {git_deps[i].source : i \in DOMAIN git_deps}
        /\ (rpc = "y_resolutions" \/ project_files # <<>>) =>
               {clones[k] : k \in DOMAIN clones}
                   = {git_deps[i].source : i \in DOMAIN git_deps}
        /\ project_files # <<>> =>
               \A i \in DOMAIN git_deps :
                   package_json_file.resolutions[git_deps[i].name]
                       = <<"abs", git_deps[i].source>>

C12_Witness ==
    /\ pm = "yarn"
    /\ Len(git_deps) = 2
    /\ git_deps[1].name # git_deps[2].name
    /\ git_deps[1].source = git_deps[2].source
    /\ clones = <<git_deps[1].source>>
    /\ project_files # <<>>

\* C13: when two git dependencies have the same name and different sources
\* the resolver does not get past the collision check: it raises
\* PackageRejected with no repository cloned, package.json as
\* _configure_yarn_version left it, and no project file.
C13_CollisionRejectedBeforeClone ==
    (/\ pm = "yarn"
     /\ \E i, j \in DOMAIN git_deps :
           /\ git_deps[i].name = git_deps[j].name
           /\ git_deps[i].source # git_deps[j].source) =>
        /\ rpc \in {"y_collisions", "raised"}
        /\ rpc = "raised" => rerr = "PackageRejected"
        /\ clones = <<>>
        /\ package_json_file.resolutions = yarn_orig.package_json.resolutions
        /\ project_files = <<>>
        /\ installs = <<>>

C13_Witness ==
    /\ pm = "yarn"
    /\ Len(git_deps) = 2
    /\ git_deps[1].name = git_deps[2].name
    /\ git_deps[1].source # git_deps[2].source
    /\ rpc = "raised"
    /\ rerr = "PackageRejected"

----------------------------------------------------------------------------
(* Properties of the services of hermeto/core *)

\* C15: when _clone_git_repo has ended on an SSH URL, be it ssh://... or
\* user@host:path, whose first clone failed, it has made exactly two attempts,
\* the second on an https:// URL, and has raised only if the second failed
\* too; on any other URL, and after a first clone that did not fail, it has
\* made exactly one attempt.
C15_SshFallsBackToHttps ==
    (op = "clone" /\ spc \in {"returned", "raised"}) =>
        LET at == Find(url, <<"@">>)
            colon == Find(url, <<":">>)
            slash == Find(url, <<"/">>)
            ssh_scheme == Len(url) >= 4 /\ SubSeq(url, 1, 4) = <<"ssh", ":", "/", "/">>
            scp_style == /\ Find(url, <<":", "/", "/">>) = 0
                         /\ 0 < at /\ at < colon
                         /\ (slash = 0 \/ colon < slash)
        IN  IF (ssh_scheme \/ scp_style) /\ tried[1].result = "clone_failed"
            THEN /\ Len(tried) = 2
                 /\ SubSeq(tried[2].url, 1, 4) = <<"https", ":", "/", "/">>
                 /\ (spc = "raised" => tried[2].result # "ok")
            ELSE Len(tried) = 1

\* C16: once get_repo_id has ended on a repository with an origin, then: if
\* the origin has "://", it has returned the origin without the
\* "user:password@" of its authority, if there is one, and else as it is; if
\* the origin is host:path or user@host:path, with no "/" before the first
\* ":", it has returned "ssh://", then the origin with its first ":" and the
\* slashes after it made one "/"; for any other origin it has raised
\* UnsupportedFeature.
C16_CanonicalOrigin ==
    (op = "get_repo_id" /\ spc # "start" /\ origin # <<>>) =>
        LET i == Find(origin, <<":", "/", "/">>)
            rest == From(origin, i + 3)
            j == Find(rest, <<"/">>)
            authority == IF j = 0 THEN rest ELSE SubSeq(rest, 1, j - 1)
            a == FindLast(authority, "@")
            has_password == a > 0 /\ Find(SubSeq(authority, 1, a - 1), <<":">>) > 0
            colon == Find(origin, <<":">>)
            slash == Find(origin, <<"/">>)
            after == From(origin, colon + 1)
        IN  IF i > 0
            THEN /\ serr = "none"
                 /\ origin_url = IF has_password
                                  THEN SubSeq(origin, 1, i + 2) \o From(rest, a + 1)
                                  ELSE origin
            ELSE IF colon > 0 /\ (slash = 0 \/ colon < slash)
            THEN /\ serr = "none"
                 /\ origin_url = <<"ssh", ":", "/", "/">> \o SubSeq(origin, 1, colon - 1)
                                      \o <<"/">> \o From(after, LeadingSlashes(after) + 1)
            ELSE spc = "raised" /\ serr = "UnsupportedFeature"

\* C17: the canonical form of an origin URL is its own canonical form:
\* get_repo_id on a repository whose origin is a URL that get_repo_id has
\* reported reports the same URL.
C17_CanonicalizeIdempotent ==
    (op = "get_repo_id" /\ spc = "returned_again") => again = origin_url

\* C18: get_repo_for_path on a target under the root ends.  When it returns,
\* every submodule whose directory holds the target is initialized, the
\* repository returned is the deepest of them (the root if there is none),
\* and the path returned leads from its working directory to the target.
\* When a submodule that holds the target is not initialized, it raises
\* NotAGitRepo, and it raises in no other case.
C18_InnermostRepository ==
    /\ [] ((op = "get_repo_for_path"
               /\ (target = <<>> \/ Head(target) # "/"
                      \/ SubSeq(target, 1, 2) = <<"/", "w">>)) =>
            LET absolute == IF target # <<>> /\ Head(target) = "/"
                            THEN target
                            ELSE <<"/", "w">> \o target
                on_way == {s \in submodules.all :
                              /\ Len(s) <= Len(absolute)
                              /\ SubSeq(absolute, 1, Len(s)) = s}
                repos == on_way \cup {<<"/", "w">>}
                innermost == CHOOSE r \in repos : \A q \in repos : Len(q) <= Len(r)
                stuck == on_way \cap submodules.uninitialized # {}
            IN  /\ spc = "returned" =>
                      /\ ~stuck
                      /\ current_repo = innermost
                      /\ current_repo \o relative_path = absolute
                /\ spc = "raised" => (serr = "NotAGitRepo" /\ stuck)
                /\ (spc \in {"returned", "raised"} /\ stuck) => spc = "raised")
    /\ ((op = "get_repo_for_path") ~> (spc \in {"returned", "raised"}))

C18_Witness ==
    /\ op = "get_repo_for_path" /\ spc = "returned"
    /\ submodules.all = {<<"/", "w", "a">>, <<"/", "w", "a", "b">>}
    /\ target = <<"a", "b">>
    /\ current_repo = <<"/", "w", "a", "b">>
    /\ relative_path = <<>>

\* C19: the table has 22 kinds, no kind twice, and their codes are the
\* numbers 1..22, no code twice; a class that has been defined has the code
\* the table gives its name, and a class whose name the table lacks is never
\* defined, its definition raising ValueError; get_error_name_from_code gives
\* back kind K for the code of K, for every K, and None for any other code.
C19_ExitCodes ==
    /\ Len(_exit_codes) = 22
    /\ \A i, j \in DOMAIN _exit_codes :
          i # j => (_exit_codes[i][1] # _exit_codes[j][1]
                    /\ _exit_codes[i][2] # _exit_codes[j][2])
    /\ {_exit_codes[i][2] : i \in DOMAIN _exit_codes} = 1..22
    /\ \A i \in DOMAIN _exit_codes :
          get_error_name_from_code(_exit_codes[i][2]) = _exit_codes[i][1]
    /\ op = "errors" =>
          /\ \A c \in classes :
                \E i \in DOMAIN _exit_codes : _exit_codes[i] = <<c.name, c.exit_code>>
          /\ spc = "raised" => serr = "ValueError"
          /\ looked # <<>> =>
                IF looked[1].code \in 1..22
                THEN \E i \in DOMAIN _exit_codes :
                        _exit_codes[i] = <<looked[1].name, looked[1].code>>
                ELSE looked[1].name = "None"

C19_Witness ==
    /\ op = "errors" /\ spc = "returned"
    /\ [name |-> "MissingChecksum", exit_code |-> 12] \in classes
    /\ looked = << [code |-> 12, name |-> "MissingChecksum"] >>

\* C20: the value get_config returns for a key is the one of the first place
\* that gives the key, in the order: the YAML file of the command line,
\* config.yaml of the current directory, config.yaml under ~/.config, the
\* environment variable; and the built-in default if no place gives it.
C20_LayeredHighestWins ==
    (op = "config" /\ spc = "returned") =>
        config = << CASE places["cli_yaml"] # 0 -> places["cli_yaml"]
                      [] places["cwd_yaml"] # 0 -> places["cwd_yaml"]
                      [] places["home_yaml"] # 0 -> places["home_yaml"]
                      [] places["env"] # 0 -> places["env"]
                      [] OTHER -> MaxConfigValue + 1 >>

----------------------------------------------------------------------------
(* Properties of the subprocess calls and of the outputs of the resolvers *)

\* C21: when the call of `dvc fetch` makes the DVC resolver raise, the error
\* is ExecutableNotFound if the binary was not found (no subprocess ran) and
\* PackageManagerError if the subprocess ran and exited with a non-zero code.
C21_SubprocessErrors ==
    [][(pm = "dvc" /\ rpc = "dvc_fetch" /\ rpc' = "raised") =>
          rerr' = IF dvc_runs' = dvc_runs
                  THEN "ExecutableNotFound"
                  ELSE "PackageManagerError"]_vars

\* C22: once the snapshot of a lockfile entry has been downloaded, the rest of
\* _fetch_model returns to the loop over the entries and the repository's
\* cache directory holds the file refs/main of that entry.
C22_RefsMainWritten ==
    [][(pm = "huggingface" /\ rpc = "hf_ref") =>
          /\ rpc' = "hf_loop"
          /\ <<pkg, ri, "main">> \in hf_refs']_vars

\* C23: the RequestOutput that fetch_maven_source returns holds an environment
\* variable named MAVEN_OPTS whose value sets maven.repo.local to
\* ${output_dir}/deps/maven.
C23_MavenOptsInOutput ==
    (pm = "maven" /\ rpc = "returned") =>
        \E i \in DOMAIN output[1].environment_variables :
            /\ output[1].environment_variables[i].name = "MAVEN_OPTS"
            /\ output[1].environment_variables[i].value =
                  "-Dmaven.repo.local=${output_dir}/deps/maven"

----------------------------------------------------------------------------
(* Properties of the parsers, filters and caches *)

(* The address of every node of a tree: the positions to follow from the   *)
(* top list down through "children"                                        *)
RECURSIVE NodeAddresses(_)
NodeAddresses(dep_list) ==
    UNION {{<<i>>} \cup {<<i>> \o a : a \in NodeAddresses(dep_list[i].children)} :
              i \in DOMAIN dep_list}

(* The node at an address *)
RECURSIVE NodeAt(_, _)
NodeAt(dep_list, a) ==
    IF Len(a) = 1
    THEN dep_list[a[1]]
    ELSE NodeAt(dep_list[a[1]].children, Tail(a))

(* Address a comes before address b in pre-order: a is a proper prefix of  *)
(* b, or a turns to an earlier sibling where the two part                  *)
RECURSIVE ComesBefore(_, _)
ComesBefore(a, b) ==
    IF a = <<>> THEN b # <<>>
    ELSE IF b = <<>> THEN FALSE
    ELSE IF a[1] # b[1] THEN a[1] < b[1]
    ELSE ComesBefore(Tail(a), Tail(b))

\* C24: the dependency list of a parsed MavenLockfile has one entry for every
\* node of the dependency tree, at any depth, and the entry of a node stands
\* at the node's position in pre-order: after its parent and its earlier
\* siblings with all their descendants.
C24_PreOrderFlattening ==
    (fn = "maven_lockfile" /\ fpc = "returned") =>
        LET nodes == NodeAddresses(lockfile_data)
        IN  /\ Len(dependencies) = Cardinality(nodes)
            /\ \A a \in nodes :
                  dependencies[Cardinality({b \in nodes : ComesBefore(b, a)}) + 1]
                     = NodeAt(lockfile_data, a)

\* C24 witness: a lockfile whose tree has a node at depth three and a second
\* top-level dependency has been parsed.
C24_Witness ==
    /\ fn = "maven_lockfile" /\ fpc = "returned"
    /\ Len(lockfile_data) = 2
    /\ \E a \in NodeAddresses(lockfile_data) : Len(a) = 3
    /\ Len(dependencies) = 4

\* C25: when apply_platform_filters returns, every gem's platforms follow the
\* four-way rule.  All packages, all platforms: the gem's platforms without
\* "ruby" if it had other platforms, unchanged otherwise.  All packages,
\* listed platforms: the platforms of the filter.  Listed packages, all
\* platforms: as in the first case for a listed gem, only "ruby" for another.
\* Listed packages, listed platforms: the platforms of the filter for a listed
\* gem, only "ruby" for another.
C25_FourWayRule ==
    (fn = "gems_filter" /\ fpc = "returned") =>
        /\ Len(gems) = Len(gems_arg)
        /\ \A i \in DOMAIN gems :
              LET before == {gems_arg[i].platforms[k] : k \in DOMAIN gems_arg[i].platforms}
                  after == {gems[i].platforms[k] : k \in DOMAIN gems[i].platforms}
                  all_packages == gems_filter.packages = <<>>
                  all_platforms == gems_filter.platform = <<>>
                  is_listed == all_packages \/ gems[i].name \in gems_filter.packages[1]
              IN  /\ gems[i].name = gems_arg[i].name
                  /\ after = IF ~is_listed THEN {"ruby"}
                             ELSE IF ~all_platforms THEN gems_filter.platform[1]
                             ELSE IF before # {"ruby"} THEN before \ {"ruby"}
                             ELSE before

\* C25 witness: a filter that lists packages and takes all platforms has been
\* applied to a listed gem, which lost "ruby", and to a gem that is not
\* listed, which got only "ruby".
C25_Witness ==
    /\ fn = "gems_filter" /\ fpc = "returned"
    /\ gems_filter.packages = <<{"rails"}>> /\ gems_filter.platform = <<>>
    /\ gems_arg = <<[name |-> "rails", platforms |-> <<"ruby", "x86_64-linux">>],
                    [name |-> "nokogiri", platforms |-> <<"arm64-darwin", "ruby">>]>>
    /\ gems = <<[name |-> "rails", platforms |-> <<"x86_64-linux">>],
                [name |-> "nokogiri", platforms |-> <<"ruby">>]>>

\* C26: the list generate_sbom_components returns holds one Hugging Face
\* component for each Hugging Face repository that an external dependency of
\* the lockfile belongs to, one generic component for each other external
\* dependency, and nothing else; a dependency that is not an external URL has
\* no component.
C26_OneComponentPerRepository ==
    (fn = "dvc_sbom" /\ fpc = "returned") =>
        LET RepoOf(i) == CASE dvc_lockfile[i].path = "hf_gpt2" -> "gpt2"
                           [] dvc_lockfile[i].path = "hf_squad" -> "squad"
                           [] OTHER -> "None"
            external == {i \in DOMAIN dvc_lockfile : dvc_lockfile[i].path # "local"}
            repos == {RepoOf(i) : i \in external} \ {"None"}
            others == {i \in external : RepoOf(i) = "None"}
            Hf(r) == {k \in DOMAIN sbom : /\ sbom[k].type = "huggingface"
                                           /\ RepoOf(sbom[k].dep) = r}
            Generic(i) == {k \in DOMAIN sbom : /\ sbom[k].type = "generic"
                                                /\ sbom[k].dep = i}
        IN  /\ \A r \in repos : Cardinality(Hf(r)) = 1
            /\ \A i \in others : Cardinality(Generic(i)) = 1
            /\ Len(sbom) = Cardinality(repos) + Cardinality(others)
            /\ \A k \in DOMAIN sbom : sbom[k].dep \in external

\* C26 witness: components were generated for a lockfile with two files of one
\* Hugging Face repository and a local file: one component came out.
C26_Witness ==
    /\ fn = "dvc_sbom" /\ fpc = "returned"
    /\ Len(dvc_lockfile) = 3
    /\ \E i, j, k \in DOMAIN dvc_lockfile :
          /\ i # j
          /\ dvc_lockfile[i].path = "hf_gpt2" /\ dvc_lockfile[j].path = "hf_gpt2"
          /\ dvc_lockfile[k].path = "local"
    /\ Len(sbom) = 1

\* C27: when the Yarn Classic resolver has raised MissingLockfile or
\* NotV1Lockfile for a package, fetch_yarn_source calls the Yarn Berry resolver
\* for that package if Berry processing is enabled in the configuration, and
\* raises that error to its caller if it is not.
C27_BerryAfterClassic ==
    [][(fn = "metayarn" /\ fpc = "except") =>
          IF allow_yarnberry_processing
          THEN calls' = Append(calls, <<yi, "berry">>)
          ELSE fpc' = "raised" /\ merr' = yarn_packages[yi].classic]_vars

\* C30: after any sequence of add_file_to_cache calls, every entry of a
\* snapshot is a symlink that resolves, from the directory it lies in, to the
\* file blobs/<sha256 of the content last added at that entry> of the same
\* repository cache directory, and that file exists.
C30_SnapshotLinksResolve ==
    fn = "hf_cache" =>
        \A s \in snapshots :
            \E a \in added :
                /\ a.path = s.path
                /\ Resolve(SubSeq(s.path, 1, Len(s.path) - 1), s.link)
                      = <<"blobs", _compute_blob_hash(a.local_file)>>
                /\ <<"blobs", _compute_blob_hash(a.local_file)>> \in blobs

\* C28: in the git-dependency path of _resolve_yarn_project, once the settings
\* of _set_yarnrc_configuration are on disk, .yarnrc.yml has
\* enableImmutableInstalls = false exactly while the yarn install is about to
\* run or runs; the install itself sees false, and whether it succeeds or
\* raises, the .yarnrc.yml left on disk afterwards has
\* enableImmutableInstalls = true.
C28_ImmutableInstallsRestored ==
    (pm = "yarn" /\ git_deps # <<>> /\ yarnrc_file.data.hardened) =>
        /\ (yarnrc_file.data.enableImmutableInstalls = "false") <=> (rpc = "y_install_git")
        /\ yarnrc_file.data.enableImmutableInstalls \in {"true", "false"}
        /\ installs # <<>> =>
              /\ installs[Len(installs)].data.enableImmutableInstalls = "false"
              /\ yarnrc_file.data.enableImmutableInstalls = "true"

\* C28 witness: the yarn install of a project with git dependencies has failed
\* and the resolver has raised.
C28_Witness ==
    /\ pm = "yarn" /\ rpc = "raised" /\ rerr = "PackageManagerError"
    /\ git_deps # <<>>
    /\ Len(installs) = 1
    /\ installs[1].data.enableImmutableInstalls = "false"
    /\ yarnrc_file.data.enableImmutableInstalls = "true"

\* C29: for each DVC package, a dvc subprocess is started and the DVC cache
\* directory is created only once the lockfile of the package has been loaded
\* and its checksum validation has passed (every external dependency has a
\* checksum, or the mode is permissive); a step in which load_dvc_lockfile or
\* validate_checksums_present raises starts no subprocess and creates no
\* directory.
C29_FetchOnlyAfterValidation ==
    [][pm = "dvc" =>
          /\ (dvc_runs' # dvc_runs \/ (cache_dir' /\ ~cache_dir)) =>
                /\ rpc \in {"dvc_mkdir", "dvc_fetch"}
                /\ \/ mode = "permissive"
                   \/ \A i \in DOMAIN deps : deps[i].path # "local" => deps[i].checksum
          /\ (rpc \in {"dvc_loop", "dvc_validate"} /\ rpc' = "raised") =>
                /\ dvc_runs' = dvc_runs
                /\ cache_dir' = cache_dir]_vars

\* C29 witness: the validation of the second package has raised in strict
\* mode after the first package was fetched: one subprocess was started, for
\* the first package only.
C29_Witness ==
    /\ pm = "dvc" /\ rpc = "raised" /\ rerr = "PackageRejected"
    /\ mode = "strict"
    /\ pkg = 2
    /\ \E i \in DOMAIN deps : deps[i].path # "local" /\ ~deps[i].checksum
    /\ dvc_runs = 1

====
